---------------------------- MODULE Spec2Model ----------------------------
(***************************************************************************)
(* A model of the session coordinator of New Avalon: Skirmish              *)
(* (src/server.js): the in-memory maps of sessions, bindings and timers,   *)
(* the WebSocket message handlers, the close handler and the three timer   *)
(* callbacks.                                                              *)
(*                                                                         *)
(* Time is discrete.  One tick is TickMs milliseconds; a timer holds the   *)
(* number of ticks left until it is due.  Time advances from one instant   *)
(* at which a timer is due to the next; a due timer fires before time      *)
(* advances again, and messages and closes are handled at any of these     *)
(* instants, before or after the timers due then.  Two timers set in one   *)
(* call with the same delay run back to back, in the order they were set,  *)
(* with nothing handled between their callbacks.                           *)
(*                                                                         *)
(* Besides the program's state the model keeps history variables, which no *)
(* handler reads: the event of the last step and what it sent, and for the *)
(* properties that speak of the past, how long a session has been idle,    *)
(* how long a slot has been without its connection, the credentials a slot *)
(* has held and the frames the rate limiter let pass.                      *)
(***************************************************************************)
EXTENDS Naturals, Integers, Sequences, FiniteSets, TLC

(***************************************************************************)
(* Bounds of the model.                                                    *)
(***************************************************************************)
MaxConns == 2
MaxTokens == 2
MaxScore == 1
MaxSlots == 5
MaxBurst == 2

Conns == 1..MaxConns
\* The session ids clients name, and those under which they create sessions.
GameIds == {"A", "B"}
SessionIds == {"A"}

(***************************************************************************)
(* Program constants.                                                      *)
(***************************************************************************)
MAX_PLAYERS == 4
MAX_ACTIVE_GAMES == 1000
TickMs == 30 * 1000
INACTIVITY_TIMEOUT_MS == 20 * 60 * 1000
RATE_LIMIT_WINDOW == 60000
RATE_LIMIT_MAX == 60
CONVERSION_DELAY_MS == 60 * 1000
TERMINATION_DELAY_MS == 60 * 1000

Ticks(ms) == ms \div TickMs

\* ws.playerId of a connection that holds no player id (undefined).
NoPlayer == 0
\* ws.gameId of a connection that has none (undefined); falsy like "".
NoGameId == ""
\* player.playerToken = null.
NoToken == "null"

\* The JavaScript values a player id comes as: a number, a string of digits as
\* JSON can carry one, or undefined.
Num(n) == [number |-> n]
Str(str) == [string |-> str]
Undefined == [undefined |-> TRUE]

\* Number(value) of such a value that is not undefined.
Number(value) ==
    IF "number" \in DOMAIN value THEN value.number
    ELSE CHOOSE n \in 0..(MaxSlots + 1) : ToString(n) = value.string

\* id === value, for a number id.
StrictEquals(id, value) == "number" \in DOMAIN value /\ value.number = id

VARIABLES
    gameStates,              \* Map gameId -> gameState
    clientGameMap,           \* Map connection -> gameId
    gameTerminationTimers,   \* Map gameId -> timer (empty-game timeout)
    gameInactivityTimers,    \* Map gameId -> timer (idle timeout)
    playerDisconnectTimers,  \* Map `${gameId}-${playerId}` -> timer
    messageCounts,           \* Map connection -> ages of admitted messages
    ws,                      \* the WebSocket objects: readyState, gameId, playerId
    tokensIssued,            \* how many tokens generatePlayerToken has returned
    deckFiles,               \* the decks of the catalog
    exited,                  \* the process has exited
    handled,                 \* history: the event the last step handled
    outbox,                  \* history: what its handler sent, in order
    sinceActivity,           \* history: gameId -> ticks since its last activity
    lostSlots,               \* history: slots whose connection closed on them
    credentials,             \* history: gameId -> slot id -> tokens it has held
    admitted,                \* history: connection -> ages of the frames let pass
    acknowledged             \* history: connection -> the slot its last join got

vars == <<gameStates, clientGameMap, gameTerminationTimers, gameInactivityTimers,
          playerDisconnectTimers, messageCounts, ws, tokensIssued, deckFiles, exited,
          handled, outbox,
          sinceActivity, lostSlots, credentials, admitted,
          acknowledged>>

(***************************************************************************)
(* JavaScript Map helpers.                                                 *)
(***************************************************************************)
EmptyMap == [x \in {} |-> TRUE]
MapHas(m, k) == k \in DOMAIN m
MapSet(m, k, v) == [x \in (DOMAIN m) \cup {k} |-> IF x = k THEN v ELSE m[x]]
MapDelete(m, k) == [x \in (DOMAIN m) \ {k} |-> m[x]]

StartsWith(s, p) == Len(p) <= Len(s) /\ SubSeq(s, 1, Len(p)) = p

\* The least element of a set of indices, 0 when it is empty: with the set of
\* the indices that pass a test, the index Array.prototype.find stops at.
First(S) == IF S = {} THEN 0 ELSE CHOOSE i \in S : \A j \in S : i <= j

\* players.sort((a, b) => a.id - b.id): a stable sort by id.
RECURSIVE SortById(_)
SortById(seq) ==
    IF Len(seq) <= 1 THEN seq
    ELSE LET m == CHOOSE i \in 1..Len(seq) : \A j \in 1..Len(seq) : seq[i].id <= seq[j].id
             i0 == CHOOSE i \in 1..Len(seq) : seq[i].id = seq[m].id
                                              /\ \A j \in 1..(i-1) : seq[j].id # seq[m].id
         IN <<seq[i0]>> \o SortById(SubSeq(seq, 1, i0-1) \o SubSeq(seq, i0+1, Len(seq)))

(***************************************************************************)
(* Players and game states.                                                *)
(***************************************************************************)
IsActive(p) == ~p.isDummy /\ ~p.isDisconnected

\* players.filter(p => !p.isDummy && !p.isDisconnected), as indices.
ActivePlayers(players) == {i \in 1..Len(players) : IsActive(players[i])}
DummyPlayers(players) == {i \in 1..Len(players) : players[i].isDummy}
DisconnectedPlayers(players) == {i \in 1..Len(players) : players[i].isDisconnected}
WithId(players, id) == {i \in 1..Len(players) : players[i].id = id}

\* Text that clients can set is a sequence of characters.  The characters
\* of /[<>\"'&]/ and, of those of /[\x00-\x1F\x7F]/, the tab and the line feed.
HtmlSpecialChars == {"<", ">", "\"", "'", "&"}
ControlChars == {"\t", "\n"}

MAX_STRING_LENGTH == 1000

\* input.replace(/[<>\"'&]/g, '').replace(/[\x00-\x1F\x7F]/g, '').substring(0, maxLength)
sanitizeString(input, maxLength) ==
    LET kept == SelectSeq(input, LAMBDA ch : ch \notin HtmlSpecialChars \cup ControlChars)
    IN SubSeq(kept, 1, IF Len(kept) < maxLength THEN Len(kept) ELSE maxLength)

\* String.prototype.trim, for the white space of the model: the blank and the
\* control characters.
WhiteSpace == {" "} \cup ControlChars

RECURSIVE TrimStart(_)
TrimStart(text) ==
    IF text # <<>> /\ Head(text) \in WhiteSpace THEN TrimStart(Tail(text)) ELSE text

RECURSIVE TrimEnd(_)
TrimEnd(text) ==
    IF text # <<>> /\ text[Len(text)] \in WhiteSpace
    THEN TrimEnd(SubSeq(text, 1, Len(text) - 1))
    ELSE text

Trim(text) == TrimEnd(TrimStart(text))

\* The name trimmed before it is cut to 50 characters.
sanitizePlayerNameCutLast(name) ==
    LET trimmed == Trim(sanitizeString(name, MAX_STRING_LENGTH))
        cut == SubSeq(trimmed, 1, IF Len(trimmed) < 50 THEN Len(trimmed) ELSE 50)
    IN IF cut = <<>> THEN <<"A", "n", "o", "n", "y", "m", "o", "u", "s">> ELSE cut

\* sanitizeString(String(name), 50).trim() || 'Anonymous'
sanitizePlayerName(name) ==
    LET trimmed == Trim(sanitizeString(name, 50))
    IN IF trimmed = <<>> THEN <<"A", "n", "o", "n", "y", "m", "o", "u", "s">> ELSE trimmed

\* The decimal digits of n, as `${n}` gives them.
RECURSIVE Digits(_)
Digits(n) == IF n < 10 THEN <<ToString(n)>> ELSE Digits(n \div 10) \o <<ToString(n % 10)>>

\* sanitizePlayerName(`Player ${id}`) and `Dummy ${id}`.
PlayerName(id) == sanitizePlayerName(<<"P", "l", "a", "y", "e", "r", " ">> \o Digits(id))
DummyName(id) == <<"D", "u", "m", "m", "y", " ">> \o Digits(id)

\* generatePlayerToken: the n-th value of the random stream.  Distinct calls are
\* taken to return distinct strings.
TokenOf(n) == "t" \o ToString(n)

PLAYER_COLORS == <<"blue", "purple", "red", "green", "yellow", "orange", "pink", "brown">>

\* PLAYER_COLORS[id-1] || 'blue'
PlayerColor(id) == IF id \in 1..Len(PLAYER_COLORS) THEN PLAYER_COLORS[id] ELSE "blue"

\* player.teamId of a player that has none (undefined).
NoTeam == 0

createNewPlayer(id, token) ==
    [id |-> id, name |-> PlayerName(id), score |-> 0,
     hand |-> <<>>, deck |-> <<"card">>, discard |-> <<>>,
     color |-> PlayerColor(id), teamId |-> NoTeam,
     isDummy |-> FALSE, isDisconnected |-> FALSE,
     playerToken |-> token, isReady |-> FALSE]

(***************************************************************************)
(* The store: the program's maps and sockets as one value, so that helper  *)
(* functions can be written as the code's functions are, one calling the   *)
(* other.  out is what has been sent so far by the running handler,       *)
(* thrown whether it has thrown an exception, and exit whether it has      *)
(* called process.exit.  fail is the connections on which send throws      *)
(* while the handler runs, and cl is wss.clients, the connections in the   *)
(* order they came.  The model keeps no record of that order: connecting   *)
(* changes nothing else, so the connections there are can have come in any *)
(* order.  The order shows when a send throws inside a loop over           *)
(* wss.clients, and the step in which one does takes it as an input;       *)
(* elsewhere cl is the connections by their numbers.                       *)
(***************************************************************************)
RECURSIVE Orders(_)
Orders(S) ==
    IF S = {} THEN {<<>>}
    ELSE UNION {{<<c>> \o rest : rest \in Orders(S \ {c})} : c \in S}

Connected == {c \in Conns : ws[c].readyState \in {"OPEN", "CLOSING"}}

Ascending(S) == SelectSeq([c \in Conns |-> c], LAMBDA c : c \in S)

Store ==
    [gs |-> gameStates, cgm |-> clientGameMap, tt |-> gameTerminationTimers,
     it |-> gameInactivityTimers, pt |-> playerDisconnectTimers,
     mc |-> messageCounts, ws |-> ws, cl |-> Ascending(Connected),
     tok |-> tokensIssued, df |-> deckFiles, out |-> <<>>, thrown |-> FALSE,
     exit |-> FALSE, fail |-> {}]

OpenClients(s) == {c \in Conns : s.ws[c].readyState = "OPEN"}

Send(s, to, msg) == [s EXCEPT !.out = Append(@, [to |-> to, msg |-> msg])]

\* clients.forEach(client => { if (...) { try { client.send(message) } catch
\* ... } }): a send that throws is caught, and the next client is sent to.
SendEachCaught(s, to, msg) == Send(s, to \ s.fail, msg)

\* clients.forEach(client => { if (...) client.send(message) }), for the
\* clients of the list in their order: a send that throws ends the loop and
\* the handler.
RECURSIVE SendEach(_, _, _, _)
SendEach(s, list, gameId, msg) ==
    IF list = <<>> THEN s
    ELSE LET client == Head(list)
         IN IF s.ws[client].readyState = "OPEN" /\ MapHas(s.cgm, client)
               /\ s.cgm[client] = gameId
            THEN IF client \in s.fail THEN [s EXCEPT !.thrown = TRUE]
                 ELSE SendEach(Send(s, {client}, msg), Tail(list), gameId, msg)
            ELSE SendEach(s, Tail(list), gameId, msg)

\* sanitizeForBroadcast keeps the structure of the state and sanitizes its
\* strings.  The text of a state is the names of its players; its other
\* strings (ids, tokens, cards) hold none of the characters stripped.
sanitizeForBroadcast(gameState) ==
    [gameState EXCEPT !.players =
        [i \in 1..Len(gameState.players) |->
            [gameState.players[i] EXCEPT !.name = sanitizeString(@, 1000)]]]

broadcastState(s, gameId, gameState, excludeClient) ==
    SendEachCaught(s, {c \in OpenClients(s) : c # excludeClient /\ MapHas(s.cgm, c) /\ s.cgm[c] = gameId},
         [type |-> "STATE", gameId |-> gameId, state |-> sanitizeForBroadcast(gameState)])

\* The list with the private sessions in it.
GamesListOfAll(gs) ==
    {[gameId |-> g, playerCount |-> Cardinality(ActivePlayers(gs[g].players))] :
        g \in DOMAIN gs}

GamesList(gs) ==
    {[gameId |-> g, playerCount |-> Cardinality(ActivePlayers(gs[g].players))] :
        g \in {h \in DOMAIN gs : ~gs[h].isPrivate}}

broadcastGamesList(s) ==
    SendEachCaught(s, OpenClients(s), [type |-> "GAMES_LIST", games |-> GamesList(s.gs)])

TimerKey(gameId, playerId) == gameId \o "-" \o ToString(playerId)

Timer(ms) == [left |-> Ticks(ms), live |-> TRUE]

\* client.terminate(): the socket is destroyed, no frame arrives on it any
\* more, and its close event follows with code 1006.
terminate(socket) == [socket EXCEPT !.readyState = "CLOSING", !.closeCode = 1006]

\* ws.close(code): the closing handshake starts; the close event follows.
close(socket, code) ==
    IF socket.readyState = "OPEN"
    THEN [socket EXCEPT !.readyState = "CLOSING", !.closeCode = code]
    ELSE socket

\* endGame without the loop over playerDisconnectTimers: the conversion
\* timers of the game are left to run.
endGameKeepingConversionTimers(s, gameId) ==
    LET s1 == [s EXCEPT
                 !.gs = MapDelete(@, gameId),
                 !.tt = MapDelete(@, gameId),
                 !.it = MapDelete(@, gameId),
                 !.ws = [c \in Conns |->
                           IF @[c].readyState # "NONE" /\ @[c].gameId = gameId
                           THEN terminate(@[c])
                           ELSE @[c]]]
    IN broadcastGamesList(s1)

endGame(s, gameId) ==
    LET s1 == [s EXCEPT
                 !.gs = MapDelete(@, gameId),
                 !.tt = MapDelete(@, gameId),
                 !.it = MapDelete(@, gameId),
                 !.pt = [k \in {x \in DOMAIN @ : ~StartsWith(x, gameId \o "-")} |-> @[k]],
                 !.ws = [c \in Conns |->
                           IF @[c].readyState # "NONE" /\ @[c].gameId = gameId
                           THEN terminate(@[c])
                           ELSE @[c]]]
    IN broadcastGamesList(s1)

\* resetInactivityTimer without its clearTimeout and restart: a timer that
\* is running is left to run.
resetInactivityTimerOnce(s, gameId) ==
    IF gameId = NoGameId \/ MapHas(s.it, gameId) THEN s
    ELSE [s EXCEPT !.it = MapSet(@, gameId, [left |-> Ticks(INACTIVITY_TIMEOUT_MS), live |-> TRUE])]

resetInactivityTimer(s, gameId) ==
    IF gameId = NoGameId THEN s
    ELSE [s EXCEPT !.it = MapSet(@, gameId, Timer(INACTIVITY_TIMEOUT_MS))]

convertPlayerToDummy(s, gameId, playerId) ==
    IF ~MapHas(s.gs, gameId) THEN s
    ELSE
      LET gameState == s.gs[gameId]
          i == First(WithId(gameState.players, playerId))
      IN IF i # 0 /\ gameState.players[i].isDisconnected
         THEN LET newState == [gameState EXCEPT
                                 !.players[i].isDummy = TRUE,
                                 !.players[i].isDisconnected = FALSE,
                                 !.players[i].name = DummyName(gameState.players[i].id),
                                 !.players[i].playerToken = NoToken]
                  s1 == [s EXCEPT !.gs = MapSet(@, gameId, newState),
                                  !.pt = MapDelete(@, TimerKey(gameId, playerId))]
              IN broadcastState(s1, gameId, newState, 0)
         ELSE s

\* next: its callback is the next thing to run (see RunsNext).
scheduleGameTermination(s, gameId) ==
    IF MapHas(s.tt, gameId) THEN s
    ELSE [s EXCEPT !.tt = MapSet(@, gameId,
              [left |-> Ticks(TERMINATION_DELAY_MS), live |-> TRUE, next |-> FALSE])]

\* No conversion timer is followed by the termination timer of the game any
\* more.
cancelGameTermination(s, gameId) ==
    [s EXCEPT !.tt = MapDelete(@, gameId),
              !.pt = [k \in DOMAIN @ |->
                        IF @[k].then = gameId THEN [@[k] EXCEPT !.then = NoGameId] ELSE @[k]]]

handlePlayerLeave(s, gameId, playerId, isManualExit) ==
    IF gameId = NoGameId \/ playerId = Undefined THEN s
    ELSE IF ~MapHas(s.gs, gameId) THEN s
    ELSE
      LET numericPlayerId == Number(playerId)
          gameState == s.gs[gameId]
          Leaving(p) == p.id = numericPlayerId /\ ~p.isDisconnected
          updatedPlayers ==
              [i \in 1..Len(gameState.players) |->
                  IF Leaving(gameState.players[i])
                  THEN [gameState.players[i] EXCEPT !.isDisconnected = TRUE, !.isReady = FALSE]
                  ELSE gameState.players[i]]
          playerFound == \E i \in 1..Len(gameState.players) : Leaving(gameState.players[i])
          updatedGameState == [gameState EXCEPT !.players = updatedPlayers]
          timerKey == TimerKey(gameId, numericPlayerId)
          s1 == [s EXCEPT !.gs = MapSet(@, gameId, updatedGameState),
                          !.pt = MapDelete(@, timerKey)]
          s2 == IF ~isManualExit
                THEN [s1 EXCEPT !.pt = MapSet(@, timerKey,
                          [left |-> Ticks(CONVERSION_DELAY_MS), live |-> TRUE,
                           gameId |-> gameId, playerId |-> numericPlayerId,
                           then |-> NoGameId])]
                ELSE s1
          \* then: the termination timer set in this call, right after the
          \* conversion timer and with the same delay.
          s3 == IF ActivePlayers(updatedPlayers) = {}
                THEN IF ~isManualExit /\ ~MapHas(s2.tt, gameId)
                     THEN [scheduleGameTermination(s2, gameId) EXCEPT
                               !.pt[timerKey].then = gameId]
                     ELSE scheduleGameTermination(s2, gameId)
                ELSE s2
      IN IF ~playerFound THEN s
         ELSE broadcastGamesList(broadcastState(s3, gameId, updatedGameState, 0))

(***************************************************************************)
(* The message handlers: the cases of the switch of ws.on('message').      *)
(* c is the connection the message came on.                                *)
(***************************************************************************)
Reply(s, c, msg) == Send(s, {c}, msg)

\* Which of its branches JOIN_GAME takes.
JoinOutcome(s, gameId, playerToken) ==
    IF ~MapHas(s.gs, gameId) THEN "notfound"
    ELSE LET players == s.gs[gameId].players
         IN IF playerToken # ""
               /\ \E i \in DisconnectedPlayers(players) : players[i].playerToken = playerToken
            THEN "reconnect"
            ELSE IF DisconnectedPlayers(players) # {} THEN "takeover"
            ELSE IF Cardinality(ActivePlayers(players)) + Cardinality(DummyPlayers(players))
                      < MAX_PLAYERS
            THEN "new"
            ELSE "spectator"

\* The lowest positive id that no player of the list has.
NewPlayerId(players) ==
    CHOOSE n \in 1..(Len(players) + 1) :
        /\ WithId(players, n) = {}
        /\ \A m \in 1..(n-1) : WithId(players, m) # {}

ClearConversionTimer(s, gameId, playerId) ==
    [s EXCEPT !.pt = MapDelete(@, TimerKey(gameId, playerId))]

\* The reconnection branch without the clearing of the conversion timer.
JoinReconnectKeepingTimer(s, c, gameId, playerToken) ==
    LET players == s.gs[gameId].players
        i == First({j \in DisconnectedPlayers(players) : players[j].playerToken = playerToken})
        s1 == cancelGameTermination(s, gameId)
        s2 == [s1 EXCEPT !.gs[gameId].players[i].isDisconnected = FALSE]
        s4 == [s2 EXCEPT !.ws[c].playerId = players[i].id]
        s5 == Reply(s4, c, [type |-> "JOIN_SUCCESS", playerId |-> players[i].id,
                            playerToken |-> players[i].playerToken])
    IN broadcastGamesList(broadcastState(s5, gameId, s5.gs[gameId], 0))

JoinReconnect(s, c, gameId, playerToken) ==
    LET players == s.gs[gameId].players
        i == First({j \in DisconnectedPlayers(players) : players[j].playerToken = playerToken})
        s1 == cancelGameTermination(s, gameId)
        s2 == [s1 EXCEPT !.gs[gameId].players[i].isDisconnected = FALSE]
        s3 == ClearConversionTimer(s2, gameId, players[i].id)
        s4 == [s3 EXCEPT !.ws[c].playerId = players[i].id]
        s5 == Reply(s4, c, [type |-> "JOIN_SUCCESS", playerId |-> players[i].id,
                            playerToken |-> players[i].playerToken])
    IN broadcastGamesList(broadcastState(s5, gameId, s5.gs[gameId], 0))

\* The takeover branch without the new token: the slot keeps the one it has.
JoinTakeoverKeepingToken(s, c, gameId) ==
    LET players == s.gs[gameId].players
        i == First(DisconnectedPlayers(players))
        s1 == cancelGameTermination(s, gameId)
        s2 == [s1 EXCEPT !.gs[gameId].players[i].isDisconnected = FALSE,
                         !.gs[gameId].players[i].name = PlayerName(players[i].id)]
        s3 == ClearConversionTimer(s2, gameId, players[i].id)
        s4 == [s3 EXCEPT !.ws[c].playerId = players[i].id]
        s5 == Reply(s4, c, [type |-> "JOIN_SUCCESS", playerId |-> players[i].id,
                            playerToken |-> players[i].playerToken])
    IN broadcastGamesList(broadcastState(s5, gameId, s5.gs[gameId], 0))

JoinTakeover(s, c, gameId) ==
    LET players == s.gs[gameId].players
        i == First(DisconnectedPlayers(players))
        newToken == TokenOf(s.tok + 1)
        s1 == cancelGameTermination(s, gameId)
        s2 == [s1 EXCEPT !.gs[gameId].players[i].isDisconnected = FALSE,
                         !.gs[gameId].players[i].name = PlayerName(players[i].id),
                         !.gs[gameId].players[i].playerToken = newToken,
                         !.tok = @ + 1]
        s3 == ClearConversionTimer(s2, gameId, players[i].id)
        s4 == [s3 EXCEPT !.ws[c].playerId = players[i].id]
        s5 == Reply(s4, c, [type |-> "JOIN_SUCCESS", playerId |-> players[i].id,
                            playerToken |-> newToken])
    IN broadcastGamesList(broadcastState(s5, gameId, s5.gs[gameId], 0))

\* The new-player branch.  createNewPlayer ends the process with
\* process.exit(1) when the catalog has no selectable deck.
JoinNewPlayer(s, c, gameId) ==
    LET players == s.gs[gameId].players
        newPlayerId == NewPlayerId(players)
        newPlayer == createNewPlayer(newPlayerId, TokenOf(s.tok + 1))
        s1 == cancelGameTermination(s, gameId)
        s2 == [s1 EXCEPT !.gs[gameId].players = SortById(Append(players, newPlayer)),
                         !.tok = @ + 1]
        s3 == [s2 EXCEPT !.ws[c].playerId = newPlayerId]
        s4 == Reply(s3, c, [type |-> "JOIN_SUCCESS", playerId |-> newPlayerId,
                            playerToken |-> newPlayer.playerToken])
    IN IF ~(\E i \in 1..Len(s.df) : s.df[i].isSelectable) THEN [s EXCEPT !.exit = TRUE]
       ELSE broadcastGamesList(broadcastState(s4, gameId, s4.gs[gameId], 0))

JoinSpectator(s, c, gameId) ==
    LET s1 == Reply(s, c, [type |-> "JOIN_SUCCESS", playerId |-> NoPlayer,
                           playerToken |-> NoToken])
    IN Reply(s1, c, [type |-> "STATE_RAW", gameId |-> gameId, state |-> s.gs[gameId]])

HandleJoinGame(s, c, gameId, playerToken) ==
    LET outcome == JoinOutcome(s, gameId, playerToken)
        s1 == [s EXCEPT !.cgm = MapSet(@, c, gameId), !.ws[c].gameId = gameId]
        s2 == resetInactivityTimer(s1, gameId)
    IN CASE outcome = "notfound" -> Reply(s, c, [type |-> "ERROR", message |-> "not found"])
         [] outcome = "reconnect" -> JoinReconnect(s2, c, gameId, playerToken)
         [] outcome = "takeover" -> JoinTakeover(s2, c, gameId)
         [] outcome = "new" -> JoinNewPlayer(s2, c, gameId)
         [] OTHER -> JoinSpectator(s2, c, gameId)

HandleSubscribe(s, c, gameId) ==
    LET s1 == [s EXCEPT !.cgm = MapSet(@, c, gameId), !.ws[c].gameId = gameId]
    IN IF MapHas(s.gs, gameId)
       THEN Reply(s1, c, [type |-> "STATE_RAW", gameId |-> gameId, state |-> s.gs[gameId]])
       ELSE s1

\* LEAVE_GAME without its last-player case: every leave is handed to
\* handlePlayerLeave.
HandleLeaveGameByLeave(s, c, gameId, playerId) ==
    IF ~MapHas(s.gs, gameId) THEN s
    ELSE [handlePlayerLeave(s, gameId, playerId, TRUE) EXCEPT
              !.cgm = MapDelete(@, c),
              !.ws[c].playerId = NoPlayer,
              !.ws[c].gameId = NoGameId]

HandleLeaveGame(s, c, gameId, playerId) ==
    IF ~MapHas(s.gs, gameId) THEN s
    ELSE
      LET players == s.gs[gameId].players
          activePlayers == ActivePlayers(players)
          isLeavingPlayerActive ==
              \E i \in activePlayers : StrictEquals(players[i].id, playerId)
          s1 == IF isLeavingPlayerActive /\ Cardinality(activePlayers) = 1
                THEN endGame(s, gameId)
                ELSE handlePlayerLeave(s, gameId, playerId, TRUE)
      IN [s1 EXCEPT !.cgm = MapDelete(@, c),
                    !.ws[c].playerId = NoPlayer,
                    !.ws[c].gameId = NoGameId]

\* The state-size check of UPDATE_STATE: the serialized gameState against
\* MAX_GAME_STATE_SIZE.
StateTooLarge(size) == size = "over10MB"

\* UPDATE_STATE that publishes a state only when it differs from the stored one.
HandleUpdateStateIfChanged(s, c, updatedGameState, size) ==
    LET gameIdToUpdate == updatedGameState.gameId
        tooLarge == Reply(s, c, [type |-> "ERROR", message |-> "Game state too large"])
    IN IF MapHas(s.gs, gameIdToUpdate)
       THEN IF StateTooLarge(size) THEN tooLarge
            ELSE LET s1 == IF ~MapHas(s.cgm, c) \/ s.cgm[c] # gameIdToUpdate
                           THEN [s EXCEPT !.cgm = MapSet(@, c, gameIdToUpdate),
                                          !.ws[c].gameId = gameIdToUpdate]
                           ELSE s
                     s2 == resetInactivityTimer(s1, gameIdToUpdate)
                     s3 == [s2 EXCEPT !.gs = MapSet(@, gameIdToUpdate, updatedGameState)]
                 IN IF s.gs[gameIdToUpdate] = updatedGameState THEN s3
                    ELSE broadcastState(s3, gameIdToUpdate, updatedGameState, c)
       ELSE IF Cardinality(DOMAIN s.gs) >= MAX_ACTIVE_GAMES
            THEN Reply(s, c, [type |-> "ERROR", message |-> "Too many active games"])
            ELSE IF StateTooLarge(size) THEN tooLarge
            ELSE LET s1 == [s EXCEPT !.gs = MapSet(@, gameIdToUpdate, updatedGameState)]
                     s2 == resetInactivityTimer(s1, gameIdToUpdate)
                 IN broadcastState(broadcastGamesList(s2), gameIdToUpdate, updatedGameState, c)

HandleUpdateState(s, c, updatedGameState, size) ==
    LET gameIdToUpdate == updatedGameState.gameId
        tooLarge == Reply(s, c, [type |-> "ERROR", message |-> "Game state too large"])
    IN IF MapHas(s.gs, gameIdToUpdate)
       THEN IF StateTooLarge(size) THEN tooLarge
            ELSE LET s1 == IF ~MapHas(s.cgm, c) \/ s.cgm[c] # gameIdToUpdate
                           THEN [s EXCEPT !.cgm = MapSet(@, c, gameIdToUpdate),
                                          !.ws[c].gameId = gameIdToUpdate]
                           ELSE s
                     s2 == resetInactivityTimer(s1, gameIdToUpdate)
                     s3 == [s2 EXCEPT !.gs = MapSet(@, gameIdToUpdate, updatedGameState)]
                 IN broadcastState(s3, gameIdToUpdate, updatedGameState, c)
       ELSE IF Cardinality(DOMAIN s.gs) >= MAX_ACTIVE_GAMES
            THEN Reply(s, c, [type |-> "ERROR", message |-> "Too many active games"])
            ELSE IF StateTooLarge(size) THEN tooLarge
            ELSE LET s1 == [s EXCEPT !.gs = MapSet(@, gameIdToUpdate, updatedGameState)]
                     s2 == resetInactivityTimer(s1, gameIdToUpdate)
                 IN broadcastState(broadcastGamesList(s2), gameIdToUpdate, updatedGameState, c)

HandleForceSync(s, c, hostGameState) ==
    LET gameIdToSync == hostGameState.gameId
    IN IF MapHas(s.gs, gameIdToSync) /\ s.ws[c].playerId = 1
       THEN LET s1 == resetInactivityTimer(s, gameIdToSync)
                s2 == [s1 EXCEPT !.gs = MapSet(@, gameIdToSync, hostGameState)]
            IN broadcastState(s2, gameIdToSync, hostGameState, 0)
       ELSE s

\* The JSON values an entry of assignments comes as: an array or null.
List(seq) == [list |-> seq]
Null == [null |-> TRUE]

\* playerMap.get(id) of new Map(players.map(p => [p.id, p])): the index of the
\* last player with the id, 0 for undefined.
PlayerMapGet(players, id) ==
    IF WithId(players, id) = {} THEN 0
    ELSE CHOOSE i \in WithId(players, id) : \A j \in WithId(players, id) : j <= i

\* playerIds.forEach(playerId => ...): the players of the list get the team
\* and the colour of its captain.
RECURSIVE AssignTeam(_, _, _, _)
AssignTeam(players, playerIds, teamId, teamCaptain) ==
    IF playerIds = <<>> THEN players
    ELSE LET i == PlayerMapGet(players, Head(playerIds))
             assigned == IF i = 0 THEN players
                         ELSE [players EXCEPT ![i].teamId = teamId,
                                              ![i].color = players[teamCaptain].color]
         IN AssignTeam(assigned, Tail(playerIds), teamId, teamCaptain)

\* for (const teamId in assignments): the teams in the order of their keys.
\* The entry of a team is a list of player ids or null; playerIds[0] of null
\* throws a TypeError, and the loop ends there.
RECURSIVE AssignTeams(_, _)
AssignTeams(players, assignments) ==
    IF assignments = <<>> THEN [players |-> players, thrown |-> FALSE]
    ELSE LET entry == Head(assignments).playerIds
         IN IF entry = Null THEN [players |-> players, thrown |-> TRUE]
            ELSE LET playerIds == entry.list
                     teamCaptain == IF playerIds = <<>> THEN 0
                                    ELSE PlayerMapGet(players, playerIds[1])
                 IN IF teamCaptain = 0 THEN AssignTeams(players, Tail(assignments))
                    ELSE AssignTeams(AssignTeam(players, playerIds,
                                                Head(assignments).teamId, teamCaptain),
                                     Tail(assignments))

\* case 'ASSIGN_TEAMS'.  What the handler has done when it throws stays done;
\* the catch of ws.on('message') logs the error.
HandleAssignTeams(s, c, gameId, assignments) ==
    IF MapHas(s.gs, gameId) /\ ~s.gs[gameId].isGameStarted
    THEN LET s1 == resetInactivityTimer(s, gameId)
             players == s.gs[gameId].players
             cleared == [i \in 1..Len(players) |-> [players[i] EXCEPT !.teamId = NoTeam]]
             result == AssignTeams(cleared, assignments)
             s2 == [s1 EXCEPT !.gs[gameId].players = result.players]
         IN IF result.thrown THEN [s2 EXCEPT !.thrown = TRUE]
            ELSE broadcastState(s2, gameId, s2.gs[gameId], 0)
    ELSE s

\* case 'TRIGGER_HIGHLIGHT', which notes activity, and case
\* 'TRIGGER_NO_TARGET', 'TRIGGER_FLOATING_TEXT', 'TRIGGER_FLOATING_TEXT_BATCH',
\* which do not: the event goes to the clients of the session, the sender
\* among them.
HandleTrigger(s, c, type, gameId) ==
    IF MapHas(s.gs, gameId)
    THEN LET s1 == IF type = "TRIGGER_HIGHLIGHT" THEN resetInactivityTimer(s, gameId) ELSE s
             triggered ==
                CASE type = "TRIGGER_HIGHLIGHT" -> "HIGHLIGHT_TRIGGERED"
                  [] type = "TRIGGER_NO_TARGET" -> "NO_TARGET_TRIGGERED"
                  [] type = "TRIGGER_FLOATING_TEXT" -> "FLOATING_TEXT_TRIGGERED"
                  [] type = "TRIGGER_FLOATING_TEXT_BATCH" -> "FLOATING_TEXT_BATCH_TRIGGERED"
         IN SendEach(s1, s1.cl, gameId, [type |-> triggered])
    ELSE s

\* deckData.deckFiles filtered and mapped: the decks with an id and a name,
\* isSelectable as a Boolean.
SanitizedDeckFiles(decks) ==
    SelectSeq(decks, LAMBDA deck : deck.id # "" /\ deck.name # "")

\* case 'UPDATE_DECK_DATA': the host replaces the catalog.
HandleUpdateDeckData(s, c, deckData) ==
    IF s.ws[c].playerId # 1
    THEN Reply(s, c, [type |-> "ERROR",
                      message |-> "Unauthorized: Only host can update deck data"])
    ELSE [s EXCEPT !.df = SanitizedDeckFiles(deckData.deckFiles)]

\* case 'GET_GAMES_LIST': the sessions that are not private, each with the
\* number of its players that are neither dummies nor disconnected.
HandleGetGamesList(s, c) ==
    LET public == {gId \in DOMAIN s.gs : ~s.gs[gId].isPrivate}
        gamesList ==
          {[gameId |-> gId,
            playerCount |-> Cardinality({i \in 1..Len(s.gs[gId].players) :
                                            ~s.gs[gId].players[i].isDummy
                                            /\ ~s.gs[gId].players[i].isDisconnected})] :
              gId \in public}
    IN Reply(s, c, [type |-> "GAMES_LIST", games |-> gamesList])

\* case 'SET_GAME_PRIVACY'
HandleSetGamePrivacy(s, c, gameId, isPrivate) ==
    IF MapHas(s.gs, gameId) /\ ~s.gs[gameId].isGameStarted
    THEN LET s1 == resetInactivityTimer(s, gameId)
             s2 == [s1 EXCEPT !.gs[gameId].isPrivate = isPrivate]
         IN broadcastGamesList(broadcastState(s2, gameId, s2.gs[gameId], 0))
    ELSE s

\* A variant of SET_GAME_MODE that does not look at isGameStarted.
HandleSetGameModeAnytime(s, c, gameId, mode) ==
    IF MapHas(s.gs, gameId)
    THEN LET s1 == resetInactivityTimer(s, gameId)
             s2 == [s1 EXCEPT !.gs[gameId].gameMode = mode]
         IN broadcastState(s2, gameId, s2.gs[gameId], 0)
    ELSE s

\* case 'SET_GAME_MODE'
HandleSetGameMode(s, c, gameId, mode) ==
    IF MapHas(s.gs, gameId) /\ ~s.gs[gameId].isGameStarted
    THEN LET s1 == resetInactivityTimer(s, gameId)
             s2 == [s1 EXCEPT !.gs[gameId].gameMode = mode]
         IN broadcastState(s2, gameId, s2.gs[gameId], 0)
    ELSE s

\* case 'START_READY_CHECK', 'CANCEL_READY_CHECK', 'PLAYER_READY'.  random is
\* what Math.random() returns in PLAYER_READY, in quarters.
HandleReadyCheck(s, c, type, gameId, playerId, random) ==
    LET gameState == s.gs[gameId]
        unready == [i \in 1..Len(gameState.players) |->
                      [gameState.players[i] EXCEPT !.isReady = FALSE]]
        s1 == resetInactivityTimer(s, gameId)
    IN IF ~MapHas(s.gs, gameId) THEN s
       ELSE IF gameState.isGameStarted THEN s
       ELSE IF type = "START_READY_CHECK"
       THEN LET s2 == [s1 EXCEPT !.gs[gameId].players = unready,
                                 !.gs[gameId].isReadyCheckActive = TRUE]
            IN broadcastState(s2, gameId, s2.gs[gameId], 0)
       ELSE IF ~gameState.isReadyCheckActive THEN s
       ELSE IF type = "CANCEL_READY_CHECK"
       THEN LET s2 == [s1 EXCEPT !.gs[gameId].isReadyCheckActive = FALSE,
                                 !.gs[gameId].players = unready]
            IN broadcastState(s2, gameId, s2.gs[gameId], 0)
       ELSE LET found == {i \in 1..Len(gameState.players) :
                             StrictEquals(gameState.players[i].id, playerId)}
                players == IF found = {} THEN gameState.players
                           ELSE [gameState.players EXCEPT ![First(found)].isReady = TRUE]
                activePlayers == SelectSeq(players, IsActive)
                allReady == \A i \in 1..Len(activePlayers) : activePlayers[i].isReady
                randomIndex == (random * Len(activePlayers)) \div 4
                started == [gameState EXCEPT
                              !.players = players,
                              !.isGameStarted = TRUE,
                              !.isReadyCheckActive = FALSE,
                              !.activeTurnPlayerId =
                                  IF Len(activePlayers) > 0
                                  THEN activePlayers[randomIndex + 1].id ELSE @]
                s2 == [s1 EXCEPT !.gs[gameId] =
                          IF allReady THEN started ELSE [gameState EXCEPT !.players = players]]
            IN broadcastState(s2, gameId, s2.gs[gameId], 0)

\* The switch on data.type.
Dispatch(s, c, m) ==
    CASE m.type = "JOIN_GAME" -> HandleJoinGame(s, c, m.gameId, m.playerToken)
      [] m.type = "SUBSCRIBE" -> HandleSubscribe(s, c, m.gameId)
      [] m.type = "LEAVE_GAME" -> HandleLeaveGame(s, c, m.gameId, m.playerId)
      [] m.type = "UPDATE_STATE" -> HandleUpdateState(s, c, m.gameState, m.size)
      [] m.type = "FORCE_SYNC" -> HandleForceSync(s, c, m.gameState)
      [] m.type = "ASSIGN_TEAMS" -> HandleAssignTeams(s, c, m.gameId, m.assignments)
      [] m.type = "UPDATE_DECK_DATA" -> HandleUpdateDeckData(s, c, m.deckData)
      [] m.type = "GET_GAMES_LIST" -> HandleGetGamesList(s, c)
      [] m.type = "SET_GAME_MODE" -> HandleSetGameMode(s, c, m.gameId, m.mode)
      [] m.type \in {"START_READY_CHECK", "CANCEL_READY_CHECK"} ->
            HandleReadyCheck(s, c, m.type, m.gameId, Undefined, 0)
      [] m.type = "PLAYER_READY" ->
            HandleReadyCheck(s, c, m.type, m.gameId, m.playerId, m.random)
      [] m.type = "SET_GAME_PRIVACY" -> HandleSetGamePrivacy(s, c, m.gameId, m.isPrivate)
      [] m.type \in {"TRIGGER_HIGHLIGHT", "TRIGGER_NO_TARGET", "TRIGGER_FLOATING_TEXT",
                     "TRIGGER_FLOATING_TEXT_BATCH"} ->
            HandleTrigger(s, c, m.type, m.gameId)
      [] OTHER -> s

(***************************************************************************)
(* The gates of ws.on('message') before the switch.                        *)
(***************************************************************************)
\* messages.filter(time => now - time < RATE_LIMIT_WINDOW), on ages.
RecentMessages(messages) ==
    SelectSeq(messages, LAMBDA age : age * TickMs < RATE_LIMIT_WINDOW)

\* The test of checkMessageRateLimit with > for >=.
RateLimitedAbove(messages) == Len(RecentMessages(messages)) > RATE_LIMIT_MAX

RateLimited(messages) == Len(RecentMessages(messages)) >= RATE_LIMIT_MAX

MessagesOf(s, c) == IF MapHas(s.mc, c) THEN s.mc[c] ELSE <<>>

\* checkMessageRateLimit when it returns true: the time stamp is kept.
checkMessageRateLimit(s, c) ==
    [s EXCEPT !.mc = MapSet(@, c, Append(RecentMessages(MessagesOf(s, c)), 0))]

\* The length of the frame of message m against MAX_MESSAGE_SIZE.  The frame
\* of an UPDATE_STATE is as long as the state it carries, and longer.
FrameTooLarge(m) == m.type = "UPDATE_STATE" /\ m.size \in {"over1MB", "over10MB"}

\* What the text of a frame is as JSON, for the frames that are not the
\* messages of the protocol: no JSON at all, null, a number or a string, an
\* array, an object.  A frame without the field is an object.
JsonOf(m) == IF "json" \in DOMAIN m THEN m.json ELSE "object"

\* data.type of an object that has none (undefined), and of what is no object.
NoType == ""

\* JSON.parse(messageString) throws.
ParseFails(m) == JsonOf(m) = "garbage"

\* !data || typeof data !== 'object' || !data.type
InvalidStructure(m) ==
    \/ JsonOf(m) = "null"
    \/ JsonOf(m) \notin {"array", "object"}
    \/ m.type = NoType

\* What becomes of the frame: stopped by the rate gate, by the size gate, by
\* the parser or the structure check, or handed to the switch.
Verdict(s, c, m) ==
    IF RateLimited(MessagesOf(s, c)) THEN "rate"
    ELSE IF FrameTooLarge(m) THEN "size"
    ELSE IF ParseFails(m) \/ InvalidStructure(m) THEN "malformed"
    ELSE "dispatched"

\* The switch reached without the parse and the structure check.
ParseUnchecked(s, c, m) == Dispatch(s, c, m)

\* The frame is parsed and its structure checked before the switch.
Parse(s, c, m) ==
    IF ParseFails(m)
    THEN Reply(s, c, [type |-> "ERROR", message |-> "Invalid message format"])
    ELSE IF InvalidStructure(m)
    THEN Reply(s, c, [type |-> "ERROR", message |-> "Invalid message structure"])
    ELSE Dispatch(s, c, m)

OnMessage(s, c, m) ==
    IF RateLimited(MessagesOf(s, c))
    THEN [s EXCEPT !.ws[c] = close(@, 1008)]
    ELSE LET s1 == checkMessageRateLimit(s, c)
         IN IF FrameTooLarge(m)
            THEN [s1 EXCEPT !.ws[c] = close(@, 1009)]
            ELSE Parse(s1, c, m)


(***************************************************************************)
(* The clients: what they may send.                                        *)
(***************************************************************************)
\* The state a client publishes to create game g: no player has joined yet.
NewGameState(g) ==
    [gameId |-> g, players |-> <<>>, isPrivate |-> FALSE,
     isGameStarted |-> FALSE, isReadyCheckActive |-> FALSE,
     gameMode |-> "FreeForAll", activeTurnPlayerId |-> NoPlayer]

\* A client-side edit of the stored state of g by the holder of player id k:
\* a move of its own slot.
PlayEdits(gs, g, k) ==
    LET \* a move: a card drawn from the deck, if one is left, and a point
        Played(p) ==
          [p EXCEPT !.score = @ + 1,
                    !.hand = IF p.deck # <<>> THEN Append(@, Head(p.deck)) ELSE @,
                    !.deck = IF @ # <<>> THEN Tail(@) ELSE @]
    IN {[gs[g] EXCEPT !.players[i] = Played(@)] :
           i \in {j \in WithId(gs[g].players, k) : gs[g].players[j].score < MaxScore}}

\* A client-side edit of the stored state of g: one more dummy player, added
\* by the client.
DummyEdits(gs, g) ==
    IF Len(gs[g].players) < MaxSlots
    THEN LET id == NewPlayerId(gs[g].players)
         IN {[gs[g] EXCEPT !.players = Append(@,
                [id |-> id, name |-> DummyName(id), score |-> 0,
                 hand |-> <<>>, deck |-> <<"card">>, discard |-> <<>>,
                 color |-> PlayerColor(id), teamId |-> NoTeam,
                 isDummy |-> TRUE, isDisconnected |-> FALSE,
                 playerToken |-> NoToken, isReady |-> FALSE])]}
    ELSE {}

\* A stale snapshot of g: the stored state as it was before slot i was marked
\* Disconnected (handlePlayerLeave changes nothing else of it but isReady,
\* which no handler of the model sets).
StaleEdits(gs, g) ==
    {[gs[g] EXCEPT !.players[i].isDisconnected = FALSE] :
        i \in {j \in DisconnectedPlayers(gs[g].players) : ~gs[g].players[j].isDummy}}

\* The game states connection c may publish: the state that creates a session,
\* or the stored state with an edit of its own.
ClientGameStates(c) ==
    UNION {IF MapHas(gameStates, g)
           THEN PlayEdits(gameStates, g, ws[c].playerId)
           ELSE {NewGameState(g)} : g \in SessionIds}

\* What a client may publish beyond that: a dummy player of its own making, or
\* an edit of a snapshot that is one broadcast behind.
OtherGameStates ==
    UNION {IF MapHas(gameStates, g)
           THEN DummyEdits(gameStates, g) \cup StaleEdits(gameStates, g)
           ELSE {} : g \in SessionIds}

\* The player ids a LEAVE_GAME for g may name: those of the slots of g and one
\* that no slot of g has, as numbers, and the sender's own as a string.
LeaveIds(c, g) ==
    IF MapHas(gameStates, g)
    THEN {Num(gameStates[g].players[i].id) : i \in 1..Len(gameStates[g].players)}
         \cup {Num(NewPlayerId(gameStates[g].players))}
         \cup (IF ws[c].playerId # NoPlayer THEN {Str(ToString(ws[c].playerId))} ELSE {})
    ELSE {Num(1)}

\* The frames that pass the rate and size gates of ws.on('message').  For an
\* id under which no session is ever created, one JOIN_GAME and one LEAVE_GAME
\* stand for all.
Messages(c) ==
    {[type |-> "JOIN_GAME", gameId |-> g, playerToken |-> tok] :
        g \in SessionIds, tok \in {TokenOf(n) : n \in 1..tokensIssued} \cup {""}}
    \cup {[type |-> "JOIN_GAME", gameId |-> g, playerToken |-> ""] : g \in GameIds \ SessionIds}
    \cup {[type |-> "SUBSCRIBE", gameId |-> g] : g \in GameIds}
    \cup UNION {{[type |-> "LEAVE_GAME", gameId |-> g, playerId |-> k] : k \in LeaveIds(c, g)} :
                  g \in GameIds}
    \cup {[type |-> "UPDATE_STATE", gameState |-> st, size |-> "small"] :
            st \in ClientGameStates(c)}
    \cup {[type |-> "FORCE_SYNC", gameState |-> st] :
            st \in {x \in ClientGameStates(c) : MapHas(gameStates, x.gameId)}}

\* The frames of clients that join the sessions, create them and publish what
\* they like.
ClientMessages(c) ==
    {[type |-> "JOIN_GAME", gameId |-> g, playerToken |-> ""] : g \in SessionIds}
    \cup {[type |-> "UPDATE_STATE", gameState |-> st, size |-> "small"] :
            st \in {NewGameState(g) : g \in SessionIds \ DOMAIN gameStates}
                   \cup OtherGameStates}

\* The frames of one client that sends as fast as it likes: it creates a
\* session, joins it and subscribes to it.
RateMessages ==
    {[type |-> "SUBSCRIBE", gameId |-> g] : g \in SessionIds}
    \cup {[type |-> "JOIN_GAME", gameId |-> g, playerToken |-> ""] : g \in SessionIds}
    \cup {[type |-> "UPDATE_STATE", gameState |-> NewGameState(g), size |-> "small"] :
            g \in SessionIds \ DOMAIN gameStates}

\* The frames of clients that publish states of any size and send frames
\* that are no messages.
GateMessages(c) ==
    {[type |-> "JOIN_GAME", gameId |-> g, playerToken |-> ""] : g \in SessionIds}
    \cup {[type |-> "UPDATE_STATE", gameState |-> st, size |-> size] :
            st \in ClientGameStates(c), size \in {"small", "over1MB", "over10MB"}}
    \cup {[type |-> NoType, json |-> j] :
            j \in {"garbage", "null", "scalar", "array", "object"}}

\* The name a player gives itself: markup.
MarkupName == <<"<", "b", ">">>

\* The frames of clients that name their players and look at sessions: they
\* create a session, join it, publish it with a name of their own, and
\* subscribe to it.
TextMessages(c) ==
    {[type |-> "JOIN_GAME", gameId |-> g, playerToken |-> ""] : g \in SessionIds}
    \cup {[type |-> "SUBSCRIBE", gameId |-> g] : g \in SessionIds}
    \cup {[type |-> "UPDATE_STATE", gameState |-> st, size |-> "small"] :
            st \in UNION {IF MapHas(gameStates, g)
                          THEN {[gameStates[g] EXCEPT !.players[i].name = MarkupName] :
                                  i \in {j \in WithId(gameStates[g].players, ws[c].playerId) :
                                           gameStates[g].players[j].name # MarkupName}}
                          ELSE {NewGameState(g)} : g \in SessionIds}}

\* The frames of clients that play and point at things: they create a
\* session, join it, publish their moves and trigger the events shown to all.
FanoutMessages(c) ==
    {[type |-> "JOIN_GAME", gameId |-> g, playerToken |-> ""] : g \in SessionIds}
    \cup {[type |-> "UPDATE_STATE", gameState |-> st, size |-> "small"] :
            st \in ClientGameStates(c)}
    \cup {[type |-> type, gameId |-> g] :
            type \in {"TRIGGER_HIGHLIGHT", "TRIGGER_NO_TARGET"}, g \in SessionIds}

\* The frames of clients of two sessions: they create the sessions, join
\* them, publish them with a player less, and send FORCE_SYNC with a move of
\* player 1 in any session there is.
SyncMessages(c) ==
    {[type |-> "JOIN_GAME", gameId |-> g, playerToken |-> ""] : g \in GameIds}
    \cup {[type |-> "UPDATE_STATE", gameState |-> st, size |-> "small"] :
            st \in {NewGameState(g) : g \in GameIds \ DOMAIN gameStates}
                   \cup UNION {{[gameStates[g] EXCEPT
                                       !.players = SubSeq(@, 1, i - 1)
                                                   \o SubSeq(@, i + 1, Len(@))] :
                                      i \in 1..Len(gameStates[g].players)} :
                                   g \in DOMAIN gameStates}}
    \cup {[type |-> "FORCE_SYNC", gameState |-> st] :
            st \in UNION {PlayEdits(gameStates, g, 1) : g \in DOMAIN gameStates}}

\* The frames of clients that ask for the list of sessions, create a session,
\* public or private, join and leave it, mark a slot of it connected again by
\* an edit of their own, and turn its privacy by SET_GAME_PRIVACY,
\* UPDATE_STATE and FORCE_SYNC.
ListMessages(c) ==
    {[type |-> "GET_GAMES_LIST"]}
    \cup {[type |-> "JOIN_GAME", gameId |-> g, playerToken |-> ""] : g \in SessionIds}
    \cup {[type |-> "LEAVE_GAME", gameId |-> g, playerId |-> Num(ws[c].playerId)] :
            g \in {h \in SessionIds \cap DOMAIN gameStates : ws[c].playerId # NoPlayer}}
    \cup {[type |-> "SET_GAME_PRIVACY", gameId |-> g, isPrivate |-> b] :
            g \in SessionIds, b \in BOOLEAN}
    \cup {[type |-> "UPDATE_STATE", gameState |-> st, size |-> "small"] :
            st \in UNION {IF MapHas(gameStates, g)
                          THEN {[gameStates[g] EXCEPT !.isPrivate = ~@]} \cup StaleEdits(gameStates, g)
                          ELSE {NewGameState(g), [NewGameState(g) EXCEPT !.isPrivate = TRUE]} :
                          g \in SessionIds}}
    \cup {[type |-> "FORCE_SYNC", gameState |-> st] :
            st \in UNION {{[gameStates[g] EXCEPT !.isPrivate = ~@]} : g \in SessionIds \cap DOMAIN gameStates}}

\* The frames of clients in the lobby of a session: they create it, join it,
\* assign its teams, replace the catalog and force a state of their own on it.
LobbyMessages(c) ==
    LET \* team 1 with player 2 as its captain, the same with null for team 2,
        \* and null for team 1
        TeamAssignments ==
          {<<[teamId |-> 1, playerIds |-> List(<<2, 1>>)]>>,
           <<[teamId |-> 1, playerIds |-> List(<<2, 1>>)], [teamId |-> 2, playerIds |-> Null]>>,
           <<[teamId |-> 1, playerIds |-> Null]>>}
        \* no deck, a deck players can select, a deck they cannot, a deck
        \* without a name
        DeckCatalogs ==
          {<<>>,
           <<[id |-> "d_fusion", name |-> "Fusion", isSelectable |-> TRUE]>>,
           <<[id |-> "d_tokens", name |-> "Tokens", isSelectable |-> FALSE]>>,
           <<[id |-> "d_fusion", name |-> "", isSelectable |-> TRUE]>>}
    IN
        {[type |-> "JOIN_GAME", gameId |-> g, playerToken |-> ""] : g \in SessionIds}
        \cup {[type |-> "UPDATE_STATE", gameState |-> NewGameState(g), size |-> "small"] :
                g \in SessionIds \ DOMAIN gameStates}
        \cup {[type |-> "ASSIGN_TEAMS", gameId |-> g, assignments |-> a] :
                g \in SessionIds, a \in TeamAssignments}
        \cup {[type |-> "UPDATE_DECK_DATA", deckData |-> [deckFiles |-> decks]] :
                decks \in DeckCatalogs}
        \cup {[type |-> "FORCE_SYNC", gameState |-> st] :
                st \in UNION {PlayEdits(gameStates, g, ws[c].playerId) :
                                g \in SessionIds \cap DOMAIN gameStates}}

\* JOIN_GAME draws a token when it takes a slot over or makes a new one.
NeedsToken(m) ==
    m.type = "JOIN_GAME" /\ JoinOutcome(Store, m.gameId, m.playerToken) \in {"takeover", "new"}

(***************************************************************************)
(* History.  Each operator gives the next value of a history variable from *)
(* the state before the step, the store s after it and the event ev.       *)
(***************************************************************************)
\* The frame of the event went through the switch.
Dispatched(ev) ==
    ev.kind = "message" /\ ("verdict" \in DOMAIN ev => ev.verdict = "dispatched")

\* The event is one of the messages at which the code notes activity of g: a
\* JOIN_GAME for g, an UPDATE_STATE that stores a state of g, a FORCE_SYNC of
\* g by the host.
IsActivity(s, ev, g) ==
    /\ Dispatched(ev)
    /\ \/ ev.data.type = "JOIN_GAME" /\ ev.data.gameId = g /\ MapHas(gameStates, g)
       \/ /\ ev.data.type = "UPDATE_STATE" /\ ev.data.gameState.gameId = g
          /\ MapHas(s.gs, g) /\ s.gs[g] = ev.data.gameState
       \/ /\ ev.data.type = "FORCE_SYNC" /\ ev.data.gameState.gameId = g
          /\ MapHas(gameStates, g) /\ ws[ev.conn].playerId = 1
       \/ /\ ev.data.type \in {"ASSIGN_TEAMS", "SET_GAME_PRIVACY", "SET_GAME_MODE",
                              "START_READY_CHECK"}
          /\ ev.data.gameId = g
          /\ MapHas(gameStates, g) /\ ~gameStates[g].isGameStarted
       \/ /\ ev.data.type \in {"CANCEL_READY_CHECK", "PLAYER_READY"} /\ ev.data.gameId = g
          /\ MapHas(gameStates, g) /\ ~gameStates[g].isGameStarted
          /\ gameStates[g].isReadyCheckActive
       \/ /\ ev.data.type = "TRIGGER_HIGHLIGHT" /\ ev.data.gameId = g
          /\ MapHas(gameStates, g)

SinceActivityAfter(s, ev) ==
    [g \in DOMAIN s.gs |->
        IF ~MapHas(gameStates, g) \/ IsActivity(s, ev, g) THEN 0
        ELSE IF ev.kind = "time" THEN sinceActivity[g] + ev.ticks
        ELSE sinceActivity[g]]

\* The event is a JOIN_GAME for g that was acknowledged with player id k.
JoinAcknowledged(s, ev, g, k) ==
    /\ Dispatched(ev) /\ ev.data.type = "JOIN_GAME" /\ ev.data.gameId = g
    /\ \E n \in 1..Len(s.out) :
          s.out[n].msg.type = "JOIN_SUCCESS" /\ s.out[n].msg.playerId = k

\* The event is the conversion callback for slot k of g, and it has left the
\* slot Automated and published the state.
ConvertedBy(s, ev, g, k) ==
    /\ ev.kind = "conversion" /\ ev.gameId = g /\ ev.playerId = k
    /\ MapHas(s.gs, g)
    /\ \E i \in WithId(s.gs[g].players, k) :
          LET p == s.gs[g].players[i]
          IN p.isDummy /\ ~p.isDisconnected /\ p.name = DummyName(k)
             /\ p.playerToken = NoToken
    /\ \E n \in 1..Len(s.out) :
          /\ s.out[n].msg.type = "STATE" /\ s.out[n].msg.gameId = g
          /\ s.out[n].msg.state = s.gs[g]
          /\ s.out[n].to = {c \in OpenClients(s) : MapHas(s.cgm, c) /\ s.cgm[c] = g}

\* The event is the close of a connection bound to a Connected slot: the
\* key of that slot, if so.
LostBy(ev) ==
    IF ev.kind = "close"
    THEN LET g == ws[ev.conn].gameId
             k == ws[ev.conn].playerId
         IN IF g # NoGameId /\ k # NoPlayer /\ MapHas(gameStates, g)
               /\ \E i \in ActivePlayers(gameStates[g].players) :
                     gameStates[g].players[i].id = k
            THEN {TimerKey(g, k)}
            ELSE {}
    ELSE {}

\* A slot stays on record from the close of its connection until a JOIN_GAME
\* is acknowledged with it or its session is removed; elapsed stops counting
\* one tick past the conversion delay.
LostSlotsAfter(s, ev) ==
    LET kept == {key \in DOMAIN lostSlots :
                    /\ MapHas(s.gs, lostSlots[key].gameId)
                    /\ ~JoinAcknowledged(s, ev, lostSlots[key].gameId, lostSlots[key].playerId)}
        Limit == Ticks(CONVERSION_DELAY_MS) + 1
    IN [key \in (kept \cup {x \in LostBy(ev) : MapHas(s.gs, ws[ev.conn].gameId)}) |->
          IF key \in LostBy(ev)
          THEN [gameId |-> ws[ev.conn].gameId, playerId |-> ws[ev.conn].playerId,
                elapsed |-> 0, automated |-> FALSE]
          ELSE LET e == lostSlots[key]
               IN [e EXCEPT
                     !.elapsed = IF ev.kind = "time"
                                 THEN (IF @ + ev.ticks > Limit THEN Limit ELSE @ + ev.ticks)
                                 ELSE @,
                     !.automated = @ \/ ConvertedBy(s, ev, e.gameId, e.playerId)]]

CredentialsAfter(s, ev) ==
    [g \in DOMAIN s.gs |->
        LET players == s.gs[g].players
        IN [k \in {players[i].id : i \in 1..Len(players)} |->
              (IF MapHas(gameStates, g) /\ k \in DOMAIN credentials[g]
               THEN credentials[g][k] ELSE {})
              \cup ({players[i].playerToken : i \in WithId(players, k)} \ {NoToken})]]

\* The frames that got past the rate gate, by age; those of a receive step
\* that keeps no time stamps are not on record.
AdmittedAfter(s, ev) ==
    LET aged == [c \in DOMAIN admitted |->
                    IF ev.kind = "time"
                    THEN SelectSeq([n \in 1..Len(admitted[c]) |-> admitted[c][n] + ev.ticks],
                                   LAMBDA age : age * TickMs < RATE_LIMIT_WINDOW)
                    ELSE admitted[c]]
    IN IF ev.kind = "close" THEN MapDelete(aged, ev.conn)
       ELSE IF ev.kind = "message" /\ "verdict" \in DOMAIN ev /\ ev.verdict # "rate"
       THEN MapSet(aged, ev.conn,
                   Append(IF MapHas(aged, ev.conn) THEN aged[ev.conn] ELSE <<>>, 0))
       ELSE aged

\* The slot a connection was last sent JOIN_SUCCESS for and the session it
\* was sent it in, for as long as the socket keeps a player id: until the
\* connection closes or its LEAVE_GAME is through.
AcknowledgedAfter(s, ev) ==
    LET acks == IF Dispatched(ev) /\ ev.data.type = "JOIN_GAME"
                THEN {s.out[n].msg.playerId :
                        n \in {x \in 1..Len(s.out) :
                                 /\ s.out[x].msg.type = "JOIN_SUCCESS"
                                 /\ s.out[x].msg.playerId # NoPlayer}}
                ELSE {}
        joined == IF acks # {} THEN {ev.conn} ELSE {}
        kept == {c \in DOMAIN acknowledged : s.ws[c].playerId # NoPlayer}
    IN [c \in kept \cup joined |->
          IF c \in joined
          THEN [gameId |-> ev.data.gameId, playerId |-> CHOOSE k \in acks : TRUE]
          ELSE acknowledged[c]]

\* The store s becomes the state, and ev the event handled.  Nothing is
\* handled once the process has exited.
Commit(s, ev) ==
    /\ ~exited
    /\ deckFiles' = s.df
    /\ exited' = s.exit
    /\ gameStates' = s.gs
    /\ clientGameMap' = s.cgm
    /\ gameTerminationTimers' = s.tt
    /\ gameInactivityTimers' = s.it
    /\ playerDisconnectTimers' = s.pt
    /\ messageCounts' = s.mc
    /\ ws' = s.ws
    /\ tokensIssued' = s.tok
    /\ handled' = ev
    /\ outbox' = s.out
    /\ sinceActivity' = SinceActivityAfter(s, ev)
    /\ lostSlots' = LostSlotsAfter(s, ev)
    /\ credentials' = CredentialsAfter(s, ev)
    /\ admitted' = AdmittedAfter(s, ev)
    /\ acknowledged' = AcknowledgedAfter(s, ev)

(***************************************************************************)
(* Actions.                                                                *)
(***************************************************************************)
NewSocket ==
    [readyState |-> "NONE", closeCode |-> 0, gameId |-> NoGameId, playerId |-> NoPlayer]

Init ==
    /\ gameStates = EmptyMap
    /\ clientGameMap = EmptyMap
    /\ gameTerminationTimers = EmptyMap
    /\ gameInactivityTimers = EmptyMap
    /\ playerDisconnectTimers = EmptyMap
    /\ messageCounts = EmptyMap
    /\ ws = [c \in Conns |-> NewSocket]
    /\ tokensIssued = 0
    /\ deckFiles = <<[id |-> "d_fusion", name |-> "Fusion", isSelectable |-> TRUE]>>
    /\ exited = FALSE
    /\ handled = [kind |-> "start"]
    /\ outbox = <<>>
    /\ sinceActivity = EmptyMap
    /\ lostSlots = EmptyMap
    /\ credentials = EmptyMap
    /\ admitted = EmptyMap
    /\ acknowledged = EmptyMap

\* Two timers set in one call with the same delay run back to back, in the
\* order they were set, and nothing is handled between their callbacks: once
\* the conversion timer handlePlayerLeave set has run, the termination timer
\* it set runs next.
RunsNext == {g \in DOMAIN gameTerminationTimers : gameTerminationTimers[g].next}

\* app.ws('/'): a client connects.
Connect(c) ==
    /\ RunsNext = {}
    /\ ws[c].readyState = "NONE"
    /\ Commit([Store EXCEPT !.ws[c].readyState = "OPEN"],
              [kind |-> "connection", conn |-> c])

\* Frames arrive on a socket that is open, and on one the server has begun to
\* close with ws.close until the handshake is through.
CanReceive(c) ==
    \/ ws[c].readyState = "OPEN"
    \/ ws[c].readyState = "CLOSING" /\ ws[c].closeCode # 1006

\* ws.on('message') for a frame of a client that stays under the rate limit
\* and under the frame size: both gates let it pass.  The time stamps the rate
\* gate would keep of it are left out.
Receive(c, m) ==
    /\ RunsNext = {}
    /\ CanReceive(c)
    /\ NeedsToken(m) => tokensIssued < MaxTokens
    /\ LET s == Parse(Store, c, m)
       IN Commit(s, [kind |-> "message", conn |-> c, data |-> m, thrown |-> s.thrown])

\* ws.on('message') for such a frame while send throws on the connections
\* of failing, which are others than the one the frame came on, and with the
\* connections in wss.clients in the order given.
ReceiveFailing(c, m, failing, order) ==
    /\ RunsNext = {}
    /\ CanReceive(c)
    /\ NeedsToken(m) => tokensIssued < MaxTokens
    /\ LET s == Parse([Store EXCEPT !.fail = failing, !.cl = order], c, m)
       IN Commit(s, [kind |-> "message", conn |-> c, data |-> m, thrown |-> s.thrown,
                     failing |-> failing, order |-> order])

\* ws.on('message') with its gates.
ReceiveFrame(c, m) ==
    /\ RunsNext = {}
    /\ CanReceive(c)
    /\ NeedsToken(m) => tokensIssued < MaxTokens
    /\ LET s == OnMessage(Store, c, m)
       IN Commit(s, [kind |-> "message", conn |-> c, data |-> m,
                     verdict |-> Verdict(Store, c, m), thrown |-> s.thrown])

\* ws.on('close'): the socket of c has closed, by the client, by the network
\* or after the server closed it.
OnClose(s, c) ==
    LET s1 == [s EXCEPT !.mc = MapDelete(@, c), !.ws[c].readyState = "CLOSED"]
        playerId == IF s.ws[c].playerId = NoPlayer THEN Undefined ELSE Num(s.ws[c].playerId)
        s2 == handlePlayerLeave(s1, s.ws[c].gameId, playerId, FALSE)
    IN [s2 EXCEPT !.cgm = MapDelete(@, c), !.ws[c] = NewSocket]

Close(c) ==
    /\ RunsNext = {}
    /\ ws[c].readyState \in {"OPEN", "CLOSING"}
    /\ Commit(OnClose(Store, c), [kind |-> "close", conn |-> c])

LiveTimers(m) == {k \in DOMAIN m : m[k].live}

\* The callback of resetInactivityTimer.
InactivityCallback(s, gameId) ==
    IF MapHas(s.gs, gameId) THEN endGame(s, gameId) ELSE s

InactivityFire(g) ==
    /\ RunsNext = {}
    /\ MapHas(gameInactivityTimers, g)
    /\ gameInactivityTimers[g].live /\ gameInactivityTimers[g].left = 0
    /\ Commit(InactivityCallback([Store EXCEPT !.it[g].live = FALSE], g),
              [kind |-> "inactivity", gameId |-> g])

\* The callback of scheduleGameTermination without its look at the players:
\* the game is ended whoever is connected.
TerminationCallbackWithoutRecheck(s, gameId) == endGame(s, gameId)

\* The callback of scheduleGameTermination.
TerminationCallback(s, gameId) ==
    LET activePlayers == IF MapHas(s.gs, gameId)
                         THEN ActivePlayers(s.gs[gameId].players) ELSE {}
    IN IF activePlayers = {} THEN endGame(s, gameId)
       ELSE [s EXCEPT !.tt = MapDelete(@, gameId)]

TerminationFire(g) ==
    /\ MapHas(gameTerminationTimers, g)
    /\ gameTerminationTimers[g].live /\ gameTerminationTimers[g].left = 0
    /\ \A key \in LiveTimers(playerDisconnectTimers) : playerDisconnectTimers[key].then # g
    /\ Commit(TerminationCallback([Store EXCEPT !.tt[g].live = FALSE], g),
              [kind |-> "termination", gameId |-> g])

\* The callback of the timer handlePlayerLeave sets.
ConversionFire(key) ==
    /\ RunsNext = {}
    /\ MapHas(playerDisconnectTimers, key)
    /\ playerDisconnectTimers[key].live /\ playerDisconnectTimers[key].left = 0
    /\ Commit(convertPlayerToDummy(
                  LET then == playerDisconnectTimers[key].then
                  IN IF then # NoGameId
                     THEN [Store EXCEPT !.pt[key].live = FALSE, !.tt[then].next = TRUE]
                     ELSE [Store EXCEPT !.pt[key].live = FALSE],
                  playerDisconnectTimers[key].gameId,
                  playerDisconnectTimers[key].playerId),
              [kind |-> "conversion", gameId |-> playerDisconnectTimers[key].gameId,
               playerId |-> playerDisconnectTimers[key].playerId])

TimersLeft ==
    {gameTerminationTimers[k].left : k \in LiveTimers(gameTerminationTimers)}
    \cup {gameInactivityTimers[k].left : k \in LiveTimers(gameInactivityTimers)}
    \cup {playerDisconnectTimers[k].left : k \in LiveTimers(playerDisconnectTimers)}
Elapse(m, d) == [k \in DOMAIN m |-> IF m[k].live THEN [m[k] EXCEPT !.left = @ - d] ELSE m[k]]

\* The time stamps of messageCounts d ticks later, as ages.  Those the filter
\* of checkMessageRateLimit drops, every time it reads the list, are dropped
\* here.
Age(mc, d) ==
    [c \in DOMAIN mc |-> RecentMessages([n \in 1..Len(mc[c]) |-> mc[c][n] + d])]

\* d ticks pass.
Advance(d) ==
    Commit([Store EXCEPT !.tt = Elapse(@, d), !.it = Elapse(@, d), !.pt = Elapse(@, d),
                         !.mc = Age(@, d)],
           [kind |-> "time", ticks |-> d])

\* Time passes until the next timer is due: no timer is due now, and some
\* timer is running.
Tick ==
    /\ TimersLeft # {}
    /\ LET d == CHOOSE x \in TimersLeft : \A y \in TimersLeft : x <= y
       IN d > 0 /\ Advance(d)

\* One tick passes while no timer is running and some time stamp is young.
Pause ==
    /\ TimersLeft = {}
    /\ \E c \in DOMAIN messageCounts : messageCounts[c] # <<>>
    /\ Advance(1)

Next ==
    \/ \E c \in Conns : Connect(c)
    \/ \E c \in Conns : \E m \in Messages(c) : Receive(c, m)
    \/ \E c \in Conns : Close(c)
    \/ \E g \in GameIds : InactivityFire(g)
    \/ \E g \in GameIds : TerminationFire(g)
    \/ \E key \in DOMAIN playerDisconnectTimers : ConversionFire(key)
    \/ Tick

Spec == Init /\ [][Next]_vars

\* The same program with clients that also publish dummy players and stale
\* snapshots.
NextClient ==
    \/ \E c \in Conns : Connect(c)
    \/ \E c \in Conns : \E m \in ClientMessages(c) : Receive(c, m)
    \/ \E c \in Conns : Close(c)
    \/ \E g \in GameIds : InactivityFire(g)
    \/ \E g \in GameIds : TerminationFire(g)
    \/ \E key \in DOMAIN playerDisconnectTimers : ConversionFire(key)
    \/ Tick

SpecClient == Init /\ [][NextClient]_vars

\* The program with the gates of ws.on('message'), and clients that publish
\* states of any size, each sending at most MaxBurst frames a window.
NextLobby ==
    \/ \E c \in Conns : Connect(c)
    \/ \E c \in Conns : \E m \in LobbyMessages(c) : Receive(c, m)
    \/ \E c \in Conns : Close(c)
    \/ \E g \in GameIds : InactivityFire(g)
    \/ \E g \in GameIds : TerminationFire(g)
    \/ \E key \in DOMAIN playerDisconnectTimers : ConversionFire(key)
    \/ Tick

SpecLobby == Init /\ [][NextLobby]_vars

NextText ==
    \/ \E c \in Conns : Connect(c)
    \/ \E c \in Conns : \E m \in TextMessages(c) : Receive(c, m)
    \/ \E c \in Conns : Close(c)
    \/ \E g \in GameIds : InactivityFire(g)
    \/ \E g \in GameIds : TerminationFire(g)
    \/ \E key \in DOMAIN playerDisconnectTimers : ConversionFire(key)
    \/ Tick

SpecText == Init /\ [][NextText]_vars

NextFanout ==
    \/ \E c \in Conns : Connect(c)
    \/ \E c \in Conns : \E m \in FanoutMessages(c) :
          \E failing \in SUBSET (Conns \ {c}) : \E order \in Orders(Connected) :
              ReceiveFailing(c, m, failing, order)
    \/ \E c \in Conns : Close(c)
    \/ \E g \in GameIds : InactivityFire(g)
    \/ \E g \in GameIds : TerminationFire(g)
    \/ \E key \in DOMAIN playerDisconnectTimers : ConversionFire(key)
    \/ Tick

SpecFanout == Init /\ [][NextFanout]_vars

NextSync ==
    \/ \E c \in Conns : Connect(c)
    \/ \E c \in Conns : \E m \in SyncMessages(c) : Receive(c, m)
    \/ \E c \in Conns : Close(c)
    \/ \E g \in GameIds : InactivityFire(g)
    \/ \E g \in GameIds : TerminationFire(g)
    \/ \E key \in DOMAIN playerDisconnectTimers : ConversionFire(key)
    \/ Tick

SpecSync == Init /\ [][NextSync]_vars

Paced(c) == Len(MessagesOf(Store, c)) < MaxBurst

NextList ==
    \/ \E c \in Conns : Connect(c)
    \/ \E c \in Conns : \E m \in ListMessages(c) : Receive(c, m)
    \/ \E c \in Conns : Close(c)
    \/ \E g \in GameIds : InactivityFire(g)
    \/ \E g \in GameIds : TerminationFire(g)
    \/ \E key \in DOMAIN playerDisconnectTimers : ConversionFire(key)
    \/ Tick

SpecList == Init /\ [][NextList]_vars

\* The program with clients that create a session, join it, run its ready
\* check and send the frames of the lobby before and after the game starts.
NextReady ==
    \/ \E c \in Conns : Connect(c)
    \/ \E c \in Conns :
         \E m \in {[type |-> "JOIN_GAME", gameId |-> g, playerToken |-> ""] : g \in SessionIds}
                \cup {[type |-> "UPDATE_STATE", gameState |-> NewGameState(g), size |-> "small"] :
                        g \in SessionIds \ DOMAIN gameStates}
                \cup {[type |-> "SET_GAME_MODE", gameId |-> g, mode |-> mode] :
                        g \in SessionIds, mode \in {"FreeForAll", "TwoVTwo"}}
                \cup {[type |-> "SET_GAME_PRIVACY", gameId |-> g, isPrivate |-> b] :
                        g \in SessionIds, b \in BOOLEAN}
                \cup {[type |-> "ASSIGN_TEAMS", gameId |-> g,
                       assignments |-> <<[teamId |-> 1, playerIds |-> List(<<2, 1>>)]>>] :
                        g \in SessionIds}
                \cup {[type |-> type, gameId |-> g] :
                        type \in {"START_READY_CHECK", "CANCEL_READY_CHECK"}, g \in SessionIds}
                \cup {[type |-> "PLAYER_READY", gameId |-> g, playerId |-> Num(ws[c].playerId),
                       random |-> random] : g \in SessionIds, random \in {0, 3}} :
            Receive(c, m)
    \/ \E c \in Conns : Close(c)
    \/ \E g \in GameIds : InactivityFire(g)
    \/ \E g \in GameIds : TerminationFire(g)
    \/ \E key \in DOMAIN playerDisconnectTimers : ConversionFire(key)
    \/ Tick

SpecReady == Init /\ [][NextReady]_vars

(***************************************************************************)
(* The administrator's command line.                                       *)
(***************************************************************************)

\* The command "clear" without its last two lines: the conversion timers are
\* left to run.
ClearKeepingConversionTimers ==
    /\ RunsNext = {}
    /\ LET clients == OpenClients(Store)
           s1 == IF clients = {} THEN Store
                 ELSE Send(Store, clients,
                           [type |-> "ERROR",
                            message |-> "The server administrator has reset all active games. Please create or join a new game."])
           s2 == [s1 EXCEPT
                    !.ws = [c \in Conns |-> IF c \in clients THEN terminate(@[c]) ELSE @[c]],
                    !.gs = EmptyMap,
                    !.cgm = EmptyMap,
                    !.tt = EmptyMap,
                    !.it = EmptyMap]
       IN Commit(s2, [kind |-> "clear"])

\* process.stdin.on('data') with the command "clear": every open client
\* gets an ERROR and is terminated, the maps of sessions and of bindings are
\* emptied, every timer is cleared and its map emptied.
Clear ==
    /\ RunsNext = {}
    /\ LET clients == OpenClients(Store)
           s1 == IF clients = {} THEN Store
                 ELSE Send(Store, clients,
                           [type |-> "ERROR",
                            message |-> "The server administrator has reset all active games. Please create or join a new game."])
           s2 == [s1 EXCEPT
                    !.ws = [c \in Conns |-> IF c \in clients THEN terminate(@[c]) ELSE @[c]],
                    !.gs = EmptyMap,
                    !.cgm = EmptyMap,
                    !.tt = EmptyMap,
                    !.it = EmptyMap,
                    !.pt = EmptyMap]
       IN Commit(s2, [kind |-> "clear"])

\* The program with an administrator, and clients that create sessions, join
\* and leave them.
NextAdmin ==
    \/ \E c \in Conns : Connect(c)
    \/ \E c \in Conns :
         \E m \in {[type |-> "JOIN_GAME", gameId |-> g, playerToken |-> ""] : g \in GameIds}
                \cup {[type |-> "UPDATE_STATE", gameState |-> NewGameState(g), size |-> "small"] :
                        g \in GameIds \ DOMAIN gameStates}
                \cup {[type |-> "LEAVE_GAME", gameId |-> g, playerId |-> Num(ws[c].playerId)] :
                        g \in GameIds \cap {ws[c].gameId}} :
            Receive(c, m)
    \/ \E c \in Conns : Close(c)
    \/ \E g \in GameIds : InactivityFire(g)
    \/ \E g \in GameIds : TerminationFire(g)
    \/ \E key \in DOMAIN playerDisconnectTimers : ConversionFire(key)
    \/ Tick
    \/ Clear

SpecAdmin == Init /\ [][NextAdmin]_vars

(***************************************************************************)
(* Two sessions, the id of one beginning with the id of the other and a    *)
(* hyphen.                                                                 *)
(***************************************************************************)

\* The program with clients that create the sessions "A" and "A-1", join
\* them, subscribe to them and leave the slot they have.
NextPrefix ==
    \/ \E c \in Conns : Connect(c)
    \/ \E c \in Conns :
         \E m \in {[type |-> "JOIN_GAME", gameId |-> g, playerToken |-> ""] : g \in {"A", "A-1"}}
                \cup {[type |-> "UPDATE_STATE", gameState |-> NewGameState(g), size |-> "small"] :
                        g \in {"A", "A-1"} \ DOMAIN gameStates}
                \cup {[type |-> "SUBSCRIBE", gameId |-> g] : g \in {"A", "A-1"}}
                \cup {[type |-> "LEAVE_GAME", gameId |-> g, playerId |-> Num(ws[c].playerId)] :
                        g \in {"A", "A-1"} \cap {ws[c].gameId}} :
            Receive(c, m)
    \/ \E c \in Conns : Close(c)
    \/ \E g \in {"A", "A-1"} : InactivityFire(g)
    \/ \E g \in {"A", "A-1"} : TerminationFire(g)
    \/ \E key \in DOMAIN playerDisconnectTimers : ConversionFire(key)
    \/ Tick

SpecPrefix == Init /\ [][NextPrefix]_vars

(***************************************************************************)
(* Clients that send a state again.                                        *)
(***************************************************************************)

\* Connection c sends UPDATE_STATE with the stored state of g: the frame that
\* produced it (at once after it, or later), or a copy of what the server
\* has made of it since.
Resend(c, g) ==
    /\ RunsNext = {}
    /\ CanReceive(c)
    /\ MapHas(gameStates, g)
    /\ LET m == [type |-> "UPDATE_STATE", gameState |-> gameStates[g], size |-> "small"]
           s == Parse(Store, c, m)
           \* the event before this one was this frame from c
           justSent == /\ handled.kind = "message"
                       /\ handled.conn = c
                       /\ handled.data = m
                       /\ ~handled.thrown
       IN Commit(s, [kind |-> "message", conn |-> c, data |-> m, thrown |-> s.thrown,
                     resent |-> TRUE, atOnce |-> justSent])

\* Clients join a session, subscribe to it and publish their moves, and send
\* a state again.
NextResend ==
    \/ \E c \in Conns : Connect(c)
    \/ \E c \in Conns :
          \E m \in {[type |-> "JOIN_GAME", gameId |-> g, playerToken |-> ""] : g \in SessionIds}
                   \cup {[type |-> "SUBSCRIBE", gameId |-> g] : g \in SessionIds}
                   \cup {[type |-> "UPDATE_STATE", gameState |-> st, size |-> "small"] :
                           st \in ClientGameStates(c)} :
             Receive(c, m)
    \/ \E c \in Conns : \E g \in SessionIds : Resend(c, g)
    \/ \E c \in Conns : Close(c)
    \/ \E g \in GameIds : InactivityFire(g)
    \/ \E g \in GameIds : TerminationFire(g)
    \/ \E key \in DOMAIN playerDisconnectTimers : ConversionFire(key)
    \/ Tick

SpecResend == Init /\ [][NextResend]_vars

(***************************************************************************)
(* The sanitizers as functions.  A payload is a JSON value: a string       *)
(* [str], an array [arr], an object [obj] as its entries in the order of   *)
(* their insertion, or a number [num].                                     *)
(***************************************************************************)

\* sanitizeGameId of a string: null, or the string of the characters kept.
sanitizeGameId(gameId) ==
    LET \* the characters of /[a-zA-Z0-9\-_]/
        allowed ==
          {"a", "b", "c", "d", "e", "f", "g", "h", "i", "j", "k", "l", "m",
           "n", "o", "p", "q", "r", "s", "t", "u", "v", "w", "x", "y", "z",
           "A", "B", "C", "D", "E", "F", "G", "H", "I", "J", "K", "L", "M",
           "N", "O", "P", "Q", "R", "S", "T", "U", "V", "W", "X", "Y", "Z",
           "0", "1", "2", "3", "4", "5", "6", "7", "8", "9", "-", "_"}
        sanitized == SelectSeq(gameId, LAMBDA ch : ch \in allowed)
    IN IF Len(sanitized) <= 50 /\ Len(sanitized) >= 1 THEN Str(sanitized) ELSE Null

RECURSIVE sanitizeData(_)
RECURSIVE sanitizeEntries(_, _)

\* for (const [key, value] of Object.entries(data))
\*     sanitized[sanitizeString(key, 100)] = sanitizeForBroadcast(value)
\* The value of a key the object has is replaced where it stands, a new key
\* is added last.
sanitizeEntries(entries, sanitized) ==
    IF entries = <<>> THEN sanitized
    ELSE LET key == sanitizeString(Head(entries).key, 100)
             value == sanitizeData(Head(entries).value)
         IN sanitizeEntries(Tail(entries),
               IF \E i \in 1..Len(sanitized) : sanitized[i].key = key
               THEN [i \in 1..Len(sanitized) |->
                       IF sanitized[i].key = key THEN [key |-> key, value |-> value]
                       ELSE sanitized[i]]
               ELSE Append(sanitized, [key |-> key, value |-> value]))

\* sanitizeForBroadcast of a payload.
sanitizeData(data) ==
    IF "str" \in DOMAIN data THEN [str |-> sanitizeString(data.str, 1000)]
    ELSE IF "arr" \in DOMAIN data
    THEN [arr |-> [i \in 1..Len(data.arr) |-> sanitizeData(data.arr[i])]]
    ELSE IF "obj" \in DOMAIN data THEN [obj |-> sanitizeEntries(data.obj, <<>>)]
    ELSE data

\* The sanitizer of a call applied to a value.
Sanitized(call, value) ==
    CASE call.fn = "sanitizeString" -> Str(sanitizeString(value.string, call.maxLength))
      [] call.fn = "sanitizePlayerName" -> Str(sanitizePlayerName(value.string))
      [] call.fn = "sanitizeGameId" ->
            IF value = Null THEN Null ELSE sanitizeGameId(value.string)
      [] call.fn = "sanitizeForBroadcast" -> sanitizeData(value)

\* The inputs: the strings of up to MaxText characters (a letter, an HTML
\* character, a blank, a control character), alone and
\* after n characters that every sanitizer keeps, for the n that put them at
\* the length a sanitizer cuts at or refuses.
MaxText == 3

SanitizerCalls ==
    LET Texts == UNION {[1..n -> {"a", "<", " ", "\n"}] : n \in 0..MaxText}
        ShortTexts == UNION {[1..n -> {"a", "<"}] : n \in 0..2}
        Padded(n, text) == [i \in 1..n |-> "x"] \o text
    IN
        {[fn |-> "sanitizeString", maxLength |-> n, input |-> Str(text)] :
            n \in {0, 1, 2, MAX_STRING_LENGTH}, text \in Texts}
        \cup {[fn |-> "sanitizePlayerName", input |-> Str(Padded(n, text))] :
                n \in {0, 48, 49}, text \in Texts}
        \cup {[fn |-> "sanitizeGameId", input |-> Str(Padded(n, text))] :
                n \in {0, 48, 49}, text \in Texts}
        \cup {[fn |-> "sanitizeForBroadcast", input |-> [str |-> Padded(n, text)]] :
                n \in {0, 998}, text \in ShortTexts}
        \cup {[fn |-> "sanitizeForBroadcast", input |-> [arr |-> <<[str |-> text], [num |-> 1]>>]] :
                text \in ShortTexts}
        \cup {[fn |-> "sanitizeForBroadcast",
               input |-> [obj |-> <<[key |-> Padded(n, keys[1]), value |-> [str |-> text]],
                                   [key |-> Padded(n, keys[2]),
                                    value |-> [arr |-> <<[obj |-> <<[key |-> keys[1],
                                                                    value |-> [str |-> text]]>>]>>]]>>]] :
                n \in {0, 98},
                keys \in {k \in ShortTexts \X {<<"a">>, <<"a", "<">>} : k[1] # k[2]},
                text \in {<<"a">>, <<"<", "a">>}}

\* A sanitizer is called on an input.
InitSanitize ==
    /\ gameStates = EmptyMap
    /\ clientGameMap = EmptyMap
    /\ gameTerminationTimers = EmptyMap
    /\ gameInactivityTimers = EmptyMap
    /\ playerDisconnectTimers = EmptyMap
    /\ messageCounts = EmptyMap
    /\ ws = [c \in Conns |-> NewSocket]
    /\ tokensIssued = 0
    /\ deckFiles = <<[id |-> "d_fusion", name |-> "Fusion", isSelectable |-> TRUE]>>
    /\ exited = FALSE
    /\ outbox = <<>>
    /\ sinceActivity = EmptyMap
    /\ lostSlots = EmptyMap
    /\ credentials = EmptyMap
    /\ admitted = EmptyMap
    /\ acknowledged = EmptyMap
    /\ \E call \in SanitizerCalls : handled = [kind |-> "call", call |-> call]

\* It returns.
Sanitize ==
    /\ handled.kind = "call"
    /\ handled' = [kind |-> "sanitized", call |-> handled.call,
                   output |-> Sanitized(handled.call, handled.call.input)]
    /\ UNCHANGED <<gameStates, clientGameMap, gameTerminationTimers, gameInactivityTimers,
                   playerDisconnectTimers, messageCounts, ws, tokensIssued, deckFiles,
                   exited, outbox, sinceActivity, lostSlots, credentials, admitted,
          acknowledged>>

\* It is called on what it returned.
SanitizeAgain ==
    /\ handled.kind = "sanitized"
    /\ handled' = [kind |-> "sanitized again", call |-> handled.call,
                   first |-> handled.output,
                   output |-> Sanitized(handled.call, handled.output)]
    /\ UNCHANGED <<gameStates, clientGameMap, gameTerminationTimers, gameInactivityTimers,
                   playerDisconnectTimers, messageCounts, ws, tokensIssued, deckFiles,
                   exited, outbox, sinceActivity, lostSlots, credentials, admitted,
          acknowledged>>

NextSanitize == Sanitize \/ SanitizeAgain

SpecSanitize == InitSanitize /\ [][NextSanitize]_vars

NextGate ==
    \/ \E c \in Conns : Connect(c)
    \/ \E c \in Conns : \E m \in GateMessages(c) : Paced(c) /\ ReceiveFrame(c, m)
    \/ \E c \in Conns : Close(c)
    \/ \E g \in GameIds : InactivityFire(g)
    \/ \E g \in GameIds : TerminationFire(g)
    \/ \E key \in DOMAIN playerDisconnectTimers : ConversionFire(key)
    \/ Tick
    \/ Pause

SpecGate == Init /\ [][NextGate]_vars

\* One connection that sends frames as fast as it likes.
NextRate ==
    \/ Connect(1)
    \/ \E m \in RateMessages : ReceiveFrame(1, m)
    \/ Close(1)
    \/ \E g \in GameIds : InactivityFire(g)
    \/ \E g \in GameIds : TerminationFire(g)
    \/ \E key \in DOMAIN playerDisconnectTimers : ConversionFire(key)
    \/ Tick
    \/ Pause

SpecRate == Init /\ [][NextRate]_vars

(***************************************************************************)
(* Properties.                                                             *)
(***************************************************************************)
\* The entries of the outbox that carry a JOIN_SUCCESS to connection c.
JoinSuccesses(out, c) ==
    {out[n].msg : n \in {x \in 1..Len(out) : out[x].to = {c} /\ out[x].msg.type = "JOIN_SUCCESS"}}

\* C1: in every reachable state every session holds at most MAX_PLAYERS (4)
\* player slots.
C1_AtMostFourSlots ==
    \A g \in DOMAIN gameStates : Len(gameStates[g].players) <= MAX_PLAYERS

\* C2: a JOIN_GAME for a session whose credential is that of a slot k that is
\* Disconnected and not Automated is acknowledged with JOIN_SUCCESS carrying k
\* and that credential, makes slot k Connected, leaves no conversion timer for
\* k, and changes nothing else of the slot: id, name, deck, hand, discard and
\* score stay as they were.
C2_ReconnectRestoresSlot ==
    [][\A g \in DOMAIN gameStates :
         \A i \in 1..Len(gameStates[g].players) :
            LET p == gameStates[g].players[i]
            IN (/\ Dispatched(handled')
                /\ handled'.data.type = "JOIN_GAME" /\ handled'.data.gameId = g
                /\ handled'.data.playerToken # ""
                /\ p.isDisconnected /\ ~p.isDummy
                /\ p.playerToken = handled'.data.playerToken)
               => /\ [type |-> "JOIN_SUCCESS", playerId |-> p.id, playerToken |-> p.playerToken]
                        \in JoinSuccesses(outbox', handled'.conn)
                  /\ MapHas(gameStates', g)
                  /\ Len(gameStates'[g].players) = Len(gameStates[g].players)
                  /\ gameStates'[g].players[i] = [p EXCEPT !.isDisconnected = FALSE]
                  /\ ~MapHas(playerDisconnectTimers', TimerKey(g, p.id))
      ]_vars

\* C2, its case: the last step was a JOIN_GAME that presented a credential and
\* was acknowledged with that credential and a slot, which is Connected and
\* has no conversion timer.
C2_Reconnected ==
    /\ handled.kind = "message" /\ handled.data.type = "JOIN_GAME"
    /\ handled.data.playerToken # ""
    /\ \E m \in JoinSuccesses(outbox, handled.conn) :
          /\ m.playerToken = handled.data.playerToken
          /\ MapHas(gameStates, handled.data.gameId)
          /\ \E i \in ActivePlayers(gameStates[handled.data.gameId].players) :
                gameStates[handled.data.gameId].players[i].id = m.playerId
          /\ ~MapHas(playerDisconnectTimers, TimerKey(handled.data.gameId, m.playerId))

\* C3: a slot that is Automated (dummy, not disconnected, credential null)
\* stays so as long as its session lives, and no JOIN_GAME is acknowledged
\* with its id.
C3_AutomatedIsTerminal ==
    [][\A g \in DOMAIN gameStates :
         \A i \in 1..Len(gameStates[g].players) :
            LET p == gameStates[g].players[i]
            IN (/\ p.isDummy /\ ~p.isDisconnected /\ p.playerToken = NoToken
                /\ MapHas(gameStates', g))
               => /\ \E j \in WithId(gameStates'[g].players, p.id) :
                        LET q == gameStates'[g].players[j]
                        IN q.isDummy /\ ~q.isDisconnected /\ q.playerToken = NoToken
                  /\ ~(/\ Dispatched(handled')
                       /\ handled'.data.type = "JOIN_GAME" /\ handled'.data.gameId = g
                       /\ \E m \in JoinSuccesses(outbox', handled'.conn) : m.playerId = p.id)
      ]_vars

\* C4: a Connected slot whose connection closed, and which since then has not
\* been acknowledged to a JOIN_GAME while its session lived on, is Automated
\* once 60 s have passed: at 60 s its conversion is due, and the conversion
\* leaves it a dummy, not disconnected, named 'Dummy k', with credential null,
\* and publishes the state to the session.
C4_LostSlotIsAutomatedAfter60s ==
    \A key \in DOMAIN lostSlots :
        lostSlots[key].elapsed >= Ticks(CONVERSION_DELAY_MS)
        => \/ lostSlots[key].automated
           \/ /\ lostSlots[key].elapsed = Ticks(CONVERSION_DELAY_MS)
              /\ MapHas(playerDisconnectTimers, key)
              /\ playerDisconnectTimers[key].live
              /\ playerDisconnectTimers[key].left = 0

C6_IdleTeardownAfter20Minutes ==
    /\ [](\A g \in DOMAIN gameStates :
            /\ MapHas(gameInactivityTimers, g)
            /\ gameInactivityTimers[g].live
            /\ gameInactivityTimers[g].left + sinceActivity[g] = Ticks(INACTIVITY_TIMEOUT_MS))
    /\ [][handled'.kind = "inactivity"
          => /\ MapHas(gameStates, handled'.gameId)
             /\ sinceActivity[handled'.gameId] = Ticks(INACTIVITY_TIMEOUT_MS)
             /\ ~MapHas(gameStates', handled'.gameId)]_vars

\* C6, its case: the idle timer has just removed a session that had a slot,
\* 20 minutes after its last activity.
C6_TornDownByIdleTimer ==
    /\ handled.kind = "inactivity"
    /\ ~MapHas(gameStates, handled.gameId)
    /\ tokensIssued > 0
    /\ \E n \in 1..Len(outbox) : outbox[n].msg.type = "GAMES_LIST"

\* C7: at every instant at most 60 frames of a connection got past the rate
\* gate in the 60 s before it; and a frame that arrives when 60 did is not
\* dispatched: it changes no session, binding or timer, nothing is sent, and
\* the connection is closed with code 1008.
C7_RateLimit ==
    /\ [](\A c \in DOMAIN admitted : Len(admitted[c]) <= RATE_LIMIT_MAX)
    /\ [][\A c \in Conns :
            (/\ handled'.kind = "message" /\ handled'.conn = c
             /\ MapHas(admitted, c) /\ Len(admitted[c]) >= RATE_LIMIT_MAX)
            => /\ gameStates' = gameStates
               /\ clientGameMap' = clientGameMap
               /\ gameTerminationTimers' = gameTerminationTimers
               /\ gameInactivityTimers' = gameInactivityTimers
               /\ playerDisconnectTimers' = playerDisconnectTimers
               /\ ws'[c].gameId = ws[c].gameId /\ ws'[c].playerId = ws[c].playerId
               /\ outbox' = <<>>
               /\ ws'[c].readyState = "CLOSING" /\ ws'[c].closeCode = 1008
         ]_vars

\* C7, its case: a JOIN_GAME that would have created a slot in a session
\* with room has just arrived as the 61st frame of a window, and the
\* connection, still without a slot, is closing with code 1008.
C7_SixtyFirstRejected ==
    /\ handled.kind = "message" /\ handled.verdict = "rate"
    /\ handled.data.type = "JOIN_GAME"
    /\ MapHas(gameStates, handled.data.gameId)
    /\ Len(gameStates[handled.data.gameId].players) < MAX_PLAYERS
    /\ tokensIssued < MaxTokens
    /\ ws[handled.conn].playerId = NoPlayer
    /\ Len(admitted[handled.conn]) = RATE_LIMIT_MAX
    /\ ws[handled.conn].closeCode = 1008

\* C8: an UPDATE_STATE whose state is over 10 MB is answered with an ERROR to
\* its sender, and the stored states and the set of sessions stay as they were.
C8_OversizeStateGetsError ==
    [][(/\ handled'.kind = "message"
        /\ handled'.data.type = "UPDATE_STATE" /\ handled'.data.size = "over10MB")
       => /\ \E n \in 1..Len(outbox') :
                outbox'[n].to = {handled'.conn} /\ outbox'[n].msg.type = "ERROR"
          /\ gameStates' = gameStates
      ]_vars

C10_OneStatePerSlot ==
    \A g \in DOMAIN gameStates :
        \A i \in 1..Len(gameStates[g].players) :
            ~(gameStates[g].players[i].isDummy /\ gameStates[g].players[i].isDisconnected)

\* C11: a JOIN_GAME for an existing session is decided in this order.  (1) If
\* its credential is that of a Disconnected slot, that slot is reconnected and
\* acknowledged with the credential.  (2) Else, if a Disconnected slot exists,
\* the first one is taken over: it is acknowledged with a new credential and
\* its name is the default one.  (3) Else, if the Connected and Automated slots
\* are fewer than 4, a new Connected slot is added and acknowledged, with the
\* lowest positive id no slot has.  (4) Else the slots stay as they are and the
\* connection is bound to the session as an observer, holding no player id,
\* and is sent the current state once.
C11_JoinDecidedInOrder ==
    [][\A g \in DOMAIN gameStates :
         (Dispatched(handled') /\ handled'.data.type = "JOIN_GAME" /\ handled'.data.gameId = g)
         => LET players == gameStates[g].players
                c == handled'.conn
                tok == handled'.data.playerToken
                disconnected == DisconnectedPlayers(players)
                matching == {i \in disconnected : tok # "" /\ players[i].playerToken = tok}
                occupied == {i \in 1..Len(players) : ~players[i].isDisconnected}
                acks == JoinSuccesses(outbox', c)
                after == gameStates'[g].players
                states == {n \in 1..Len(outbox') :
                              /\ c \in outbox'[n].to
                              /\ outbox'[n].msg.type \in {"STATE", "STATE_RAW"}}
            IN /\ MapHas(gameStates', g)
               /\ IF matching # {}
                  THEN LET i == First(matching)
                       IN /\ acks = {[type |-> "JOIN_SUCCESS", playerId |-> players[i].id,
                                      playerToken |-> tok]}
                          /\ after = [players EXCEPT ![i].isDisconnected = FALSE]
                  ELSE IF disconnected # {}
                  THEN LET i == First(disconnected)
                       IN \E m \in acks :
                             /\ acks = {m}
                             /\ m.playerId = players[i].id
                             /\ m.playerToken \notin {NoToken, players[i].playerToken}
                             /\ after = [players EXCEPT
                                           ![i].isDisconnected = FALSE,
                                           ![i].name = PlayerName(players[i].id),
                                           ![i].playerToken = m.playerToken]
                  ELSE IF Cardinality(occupied) < MAX_PLAYERS
                  THEN \E m \in acks :
                          /\ acks = {m}
                          /\ m.playerId >= 1
                          /\ WithId(players, m.playerId) = {}
                          /\ \A n \in 1..(m.playerId - 1) : WithId(players, n) # {}
                          /\ Len(after) = Len(players) + 1
                          /\ \A i \in 1..Len(players) : \E j \in 1..Len(after) : after[j] = players[i]
                          /\ \E j \in WithId(after, m.playerId) :
                                IsActive(after[j]) /\ after[j].playerToken = m.playerToken
                  ELSE /\ after = players
                       /\ MapHas(clientGameMap', c) /\ clientGameMap'[c] = g
                       /\ ws'[c].gameId = g
                       /\ ws'[c].playerId = NoPlayer
                       /\ Cardinality(states) = 1
                       /\ \A n \in states : outbox'[n].msg.state = gameStates[g]
      ]_vars

\* C12: after a JOIN_GAME for an existing session has been handled, whatever
\* its outcome, the session has no termination timer, and its idle timer runs
\* with the full 20 minutes left.
C12_JoinCancelsTeardownAndRestartsIdle ==
    [][\A g \in DOMAIN gameStates :
         (Dispatched(handled') /\ handled'.data.type = "JOIN_GAME" /\ handled'.data.gameId = g)
         => /\ ~MapHas(gameTerminationTimers', g)
            /\ MapHas(gameInactivityTimers', g)
            /\ gameInactivityTimers'[g] = Timer(INACTIVITY_TIMEOUT_MS)
            /\ sinceActivity'[g] = 0
      ]_vars

\* C13: every running timer is keyed to a session of the store; and a step
\* that removes a session leaves no idle, termination or conversion timer
\* keyed to it, leaves every connection that was bound to it closing, its
\* socket destroyed, and sends the list of the remaining public sessions to
\* every open connection.
C13_TeardownIsComplete ==
    /\ [](/\ \A g \in LiveTimers(gameTerminationTimers) : MapHas(gameStates, g)
          /\ \A g \in LiveTimers(gameInactivityTimers) : MapHas(gameStates, g)
          /\ \A key \in LiveTimers(playerDisconnectTimers) :
                MapHas(gameStates, playerDisconnectTimers[key].gameId))
    /\ [][\A g \in DOMAIN gameStates :
            ~MapHas(gameStates', g)
            => /\ ~MapHas(gameTerminationTimers', g)
               /\ ~MapHas(gameInactivityTimers', g)
               /\ \A key \in DOMAIN playerDisconnectTimers' :
                     playerDisconnectTimers'[key].gameId # g
               /\ \A c \in Conns :
                     (\/ MapHas(clientGameMap, c) /\ clientGameMap[c] = g
                      \/ ws[c].readyState # "NONE" /\ ws[c].gameId = g)
                     => ws'[c].readyState = "CLOSING" /\ ws'[c].closeCode = 1006
               /\ \E n \in 1..Len(outbox') :
                     /\ outbox'[n].msg = [type |-> "GAMES_LIST", games |-> GamesList(gameStates')]
                     /\ outbox'[n].to = {c \in Conns : ws'[c].readyState = "OPEN"}
         ]_vars

\* C13, its case: the termination timer has just removed a session, the
\* socket of a connection bound to it is destroyed, another connection is open
\* and was sent the list, and no timer is left.
C13_TornDownWithBoundConnection ==
    /\ handled.kind = "termination"
    /\ ~MapHas(gameStates, handled.gameId)
    /\ \E c \in Conns :
          /\ ws[c].gameId = handled.gameId
          /\ ws[c].readyState = "CLOSING" /\ ws[c].closeCode = 1006
    /\ \E n \in 1..Len(outbox) : outbox[n].msg.type = "GAMES_LIST" /\ outbox[n].to # {}
    /\ gameTerminationTimers = EmptyMap /\ gameInactivityTimers = EmptyMap
    /\ playerDisconnectTimers = EmptyMap

\* C14: when the termination timer of a session fires, the session is removed
\* if it then has no Connected slot that is not Automated; if it has one, the
\* session, the sockets and the bindings stay as they are, nothing is sent,
\* and the timer is dropped from gameTerminationTimers.
C14_TerminationRechecks ==
    [][handled'.kind = "termination"
       => LET g == handled'.gameId
          IN /\ MapHas(gameStates, g)
             /\ IF ActivePlayers(gameStates[g].players) = {}
                THEN ~MapHas(gameStates', g)
                ELSE /\ gameStates' = gameStates
                     /\ ws' = ws
                     /\ clientGameMap' = clientGameMap
                     /\ outbox' = <<>>
                     /\ gameTerminationTimers' = MapDelete(gameTerminationTimers, g)
      ]_vars

\* C14, its case: the termination timer of a session has just fired, and the
\* session, which has a Connected slot that is not Automated, is still there
\* without termination timer.
C14_KeptAtTermination ==
    /\ handled.kind = "termination"
    /\ MapHas(gameStates, handled.gameId)
    /\ ActivePlayers(gameStates[handled.gameId].players) # {}
    /\ ~MapHas(gameTerminationTimers, handled.gameId)

\* C15: a step that schedules a timer leaves, under its key, a running timer
\* with the full delay left, whether or not one was running before.  The idle
\* timer of a session is scheduled by a JOIN_GAME for it; the conversion timer
\* of a slot by the close of the connection of that slot; the termination
\* timer of a session by a close or LEAVE_GAME that marks one of its slots
\* Disconnected and leaves it without a Connected slot that is not Automated.
C15_SchedulingReplaces ==
    [][\A g \in DOMAIN gameStates :
         MapHas(gameStates', g)
         => /\ (Dispatched(handled') /\ handled'.data.type = "JOIN_GAME"
                /\ handled'.data.gameId = g)
               => /\ MapHas(gameInactivityTimers', g)
                  /\ gameInactivityTimers'[g].live
                  /\ gameInactivityTimers'[g].left = Ticks(INACTIVITY_TIMEOUT_MS)
            /\ \A key \in LostBy(handled') :
                  ws[handled'.conn].gameId = g
                  => /\ MapHas(playerDisconnectTimers', key)
                     /\ playerDisconnectTimers'[key].live
                     /\ playerDisconnectTimers'[key].left = Ticks(CONVERSION_DELAY_MS)
            /\ (/\ \/ handled'.kind = "close"
                   \/ Dispatched(handled') /\ handled'.data.type = "LEAVE_GAME"
                /\ gameStates'[g] # gameStates[g]
                /\ ActivePlayers(gameStates'[g].players) = {})
               => /\ MapHas(gameTerminationTimers', g)
                  /\ gameTerminationTimers'[g].live
                  /\ gameTerminationTimers'[g].left = Ticks(TERMINATION_DELAY_MS)
      ]_vars

(***************************************************************************)
(* C16.  A frame that is no message (text that is no JSON, JSON that is no *)
(* object, an object without a type) reaches no handler.  Whatever becomes *)
(* of it, no session, binding or timer changes.  When the rate and size    *)
(* gates have let it pass, the one thing sent is an ERROR to the           *)
(* connection it came on, and that connection's socket is as it was: it    *)
(* is not closed.                                                          *)
(***************************************************************************)
C16_IsMalformed(m) ==
    "json" \in DOMAIN m /\ (m.json \in {"garbage", "null", "scalar"} \/ m.type = "")

C16_MalformedFrameRejected ==
    [][(handled'.kind = "message" /\ C16_IsMalformed(handled'.data))
       => /\ gameStates' = gameStates
          /\ clientGameMap' = clientGameMap
          /\ gameTerminationTimers' = gameTerminationTimers
          /\ gameInactivityTimers' = gameInactivityTimers
          /\ playerDisconnectTimers' = playerDisconnectTimers
          /\ \A c \in Conns : ws'[c].gameId = ws[c].gameId /\ ws'[c].playerId = ws[c].playerId
          /\ handled'.verdict \notin {"rate", "size"}
             => /\ ws' = ws
                /\ Len(outbox') = 1
                /\ outbox'[1].to = {handled'.conn}
                /\ outbox'[1].msg.type = "ERROR"]_vars

\* An array has arrived on the open connection of a player in a session, and
\* was answered with the error.
C16_MalformedAnswered ==
    /\ handled.kind = "message" /\ C16_IsMalformed(handled.data)
    /\ handled.data.json = "array"
    /\ handled.verdict = "malformed"
    /\ ws[handled.conn].readyState = "OPEN"
    /\ ws[handled.conn].playerId # NoPlayer
    /\ MapHas(gameStates, ws[handled.conn].gameId)
    /\ Len(outbox) = 1 /\ outbox[1].msg.type = "ERROR"

(***************************************************************************)
(* C17.  When the handler of a message throws, the sessions, the bindings  *)
(* of the connections and the timers are after the message exactly what    *)
(* they were before it.                                                    *)
(***************************************************************************)
C17_ThrowLeavesStateAsItWas ==
    [][(handled'.kind = "message" /\ handled'.thrown)
       => /\ gameStates' = gameStates
          /\ clientGameMap' = clientGameMap
          /\ ws' = ws
          /\ gameTerminationTimers' = gameTerminationTimers
          /\ gameInactivityTimers' = gameInactivityTimers
          /\ playerDisconnectTimers' = playerDisconnectTimers]_vars

(***************************************************************************)
(* C18.  The process never ends: no message, close or timer callback       *)
(* exits it.                                                               *)
(***************************************************************************)
C18_ProcessRuns == ~exited

(***************************************************************************)
(* C19.  Every copy of a session's state sent to a connection, by a        *)
(* publish, to an observer on JOIN_GAME or on SUBSCRIBE, is sanitized: no  *)
(* text in it holds a character the sanitizer strips.                      *)
(***************************************************************************)
C19_IsSanitized(state) ==
    \A i \in 1..Len(state.players) :
        \A k \in 1..Len(state.players[i].name) :
            state.players[i].name[k] \notin {"<", ">", "\"", "'", "&", "\t", "\n"}

C19_SentStatesAreSanitized ==
    \A n \in 1..Len(outbox) :
        outbox[n].msg.type \in {"STATE", "STATE_RAW"} => C19_IsSanitized(outbox[n].msg.state)

(***************************************************************************)
(* C20.  In every fan-out a send that fails on one connection stops        *)
(* nothing but that send: the event of a TRIGGER_* message reaches every   *)
(* open connection of the session on which send does not fail, a          *)
(* published state reaches every such connection but the publisher's, and  *)
(* a session listing reaches every open connection on which send does not  *)
(* fail.                                                                   *)
(***************************************************************************)
C20_Received(box, client, type) ==
    \E n \in 1..Len(box) : client \in box[n].to /\ box[n].msg.type = type

C20_FailureStopsOneSendOnly ==
    [][(handled'.kind = "message" /\ "failing" \in DOMAIN handled')
       => LET m == handled'.data
              failing == handled'.failing
              reached == {client \in Conns \ failing : ws'[client].readyState = "OPEN"}
          IN /\ (m.type \in {"TRIGGER_HIGHLIGHT", "TRIGGER_NO_TARGET"}
                 /\ MapHas(gameStates, m.gameId))
                => \A client \in reached :
                      (MapHas(clientGameMap, client) /\ clientGameMap[client] = m.gameId)
                      => C20_Received(outbox', client,
                                      IF m.type = "TRIGGER_HIGHLIGHT"
                                      THEN "HIGHLIGHT_TRIGGERED" ELSE "NO_TARGET_TRIGGERED")
             /\ (m.type = "UPDATE_STATE" /\ MapHas(gameStates', m.gameState.gameId)
                 /\ gameStates'[m.gameState.gameId] = m.gameState)
                => \A client \in reached \ {handled'.conn} :
                      (MapHas(clientGameMap', client)
                       /\ clientGameMap'[client] = m.gameState.gameId)
                      => C20_Received(outbox', client, "STATE")
             /\ (\E n \in 1..Len(outbox') : outbox'[n].msg.type = "GAMES_LIST")
                => \A client \in reached : C20_Received(outbox', client, "GAMES_LIST")]_vars

(***************************************************************************)
(* C21.  A FORCE_SYNC for session g from a connection that is not bound to *)
(* g, or that does not hold player id 1, leaves the stored state of g      *)
(* unchanged: only the first-joined player of g replaces it.               *)
(***************************************************************************)
C21_ForceSyncByHostOfSessionOnly ==
    [][(handled'.kind = "message" /\ handled'.data.type = "FORCE_SYNC")
       => LET c == handled'.conn
              g == handled'.data.gameState.gameId
          IN (MapHas(gameStates, g)
              /\ ~(/\ MapHas(clientGameMap, c) /\ clientGameMap[c] = g
                   /\ ws[c].gameId = g /\ ws[c].playerId = 1))
             => /\ MapHas(gameStates', g)
                /\ gameStates'[g] = gameStates[g]]_vars

(***************************************************************************)
(* C22.  A FORCE_SYNC for a session there is, or an UPDATE_DECK_DATA, from *)
(* a connection that does not hold player id 1 is answered with an ERROR   *)
(* to the sender, and changes no session state and not the catalog.        *)
(***************************************************************************)
C22_UnprivilegedGetsError ==
    [][(/\ handled'.kind = "message"
        /\ \/ handled'.data.type = "UPDATE_DECK_DATA"
           \/ /\ handled'.data.type = "FORCE_SYNC"
              /\ MapHas(gameStates, handled'.data.gameState.gameId)
        /\ ws[handled'.conn].playerId # 1)
       => /\ gameStates' = gameStates
          /\ deckFiles' = deckFiles
          /\ \E n \in 1..Len(outbox') :
                outbox'[n].to = {handled'.conn} /\ outbox'[n].msg.type = "ERROR"]_vars

(***************************************************************************)
(* C23.  No slot is removed by itself: a slot id a session has, it has     *)
(* after every step that leaves the session in the store.                  *)
(***************************************************************************)
C23_SlotsStay ==
    [][\A g \in DOMAIN gameStates \cap DOMAIN gameStates' :
          \A i \in 1..Len(gameStates[g].players) :
             WithId(gameStates'[g].players, gameStates[g].players[i].id) # {}]_vars

(***************************************************************************)
(* C24.  Each sanitizer, applied to what it returned, returns the same:    *)
(* sanitizeString for every length it cuts at, sanitizePlayerName,         *)
(* sanitizeGameId where it did not return null, and sanitizeForBroadcast   *)
(* on strings, arrays and objects nested in each other.                    *)
(***************************************************************************)
C24_SanitizersAreFixedOnTheirOutput ==
    handled.kind = "sanitized again" => handled.output = handled.first

\* A name of 51 characters with a blank as its 50th has been cut and trimmed,
\* and sanitized again.
C24_CutAndTrimmed ==
    /\ handled.kind = "sanitized again"
    /\ handled.call.fn = "sanitizePlayerName"
    /\ Len(handled.call.input.string) = 51
    /\ handled.call.input.string[50] = " "
    /\ Len(handled.first.string) = 49

(***************************************************************************)
(* C25.  An UPDATE_STATE that carries the stored state of its session      *)
(* leaves the stored state as it was and is published, sanitized, to the   *)
(* open connections bound to the session except the sender; sent at once   *)
(* after the UPDATE_STATE that stored that state, its publish is to the    *)
(* same connections and of the same content as the first one.              *)
(***************************************************************************)
C25_StateSends(sent) == SelectSeq(sent, LAMBDA x : x.msg.type = "STATE")

C25_ResendChangesNothing ==
    [][(handled'.kind = "message" /\ "resent" \in DOMAIN handled')
       => LET c == handled'.conn
              g == handled'.data.gameState.gameId
          IN /\ MapHas(gameStates', g)
             /\ gameStates'[g] = gameStates[g]
             /\ outbox' = <<[to |-> {d \in Conns \ {c} :
                                       /\ ws'[d].readyState = "OPEN"
                                       /\ MapHas(clientGameMap', d)
                                       /\ clientGameMap'[d] = g},
                             msg |-> [type |-> "STATE", gameId |-> g,
                                      state |-> sanitizeForBroadcast(gameStates[g])]]>>
             /\ handled'.atOnce => C25_StateSends(outbox) = outbox']_vars

\* A player has sent its move twice in a row, and another connection got it
\* both times.
C25_MoveSentTwice ==
    /\ handled.kind = "message"
    /\ "resent" \in DOMAIN handled
    /\ handled.atOnce
    /\ \E i \in 1..Len(handled.data.gameState.players) :
          handled.data.gameState.players[i].score > 0
    /\ Len(outbox) = 1
    /\ outbox[1].to # {}

(***************************************************************************)
(* C26.  Every GAMES_LIST message, the reply to GET_GAMES_LIST and the     *)
(* listing sent to all, lists exactly the sessions of the store that are   *)
(* not private, each with the number of its slots that are neither         *)
(* Disconnected nor Automated.                                             *)
(***************************************************************************)
C26_Listing(gs) ==
    {[gameId |-> g,
      playerCount |-> Cardinality({i \in 1..Len(gs[g].players) :
                                      ~gs[g].players[i].isDisconnected
                                      /\ ~gs[g].players[i].isDummy})] :
        g \in {h \in DOMAIN gs : gs[h].isPrivate = FALSE}}

C26_ListsAreThePublicSessions ==
    \A i \in 1..Len(outbox) :
       outbox[i].msg.type = "GAMES_LIST" => outbox[i].msg.games = C26_Listing(gameStates)

\* A connection has asked for the list while the session, with a connected
\* player in it, is private: the list it got is empty.
C26_ListWithoutThePrivateSession ==
    /\ handled.kind = "message"
    /\ handled.data.type = "GET_GAMES_LIST"
    /\ \E g \in DOMAIN gameStates :
          gameStates[g].isPrivate /\ ActivePlayers(gameStates[g].players) # {}
    /\ Len(outbox) = 1
    /\ outbox[1].msg.type = "GAMES_LIST"
    /\ outbox[1].msg.games = {}

(***************************************************************************)
(* C27.  A step that changes which sessions exist, the privacy flag of a   *)
(* session or its number of slots that are neither Disconnected nor        *)
(* Automated sends, in that step, a session listing of the new values to   *)
(* every open connection.                                                  *)
(***************************************************************************)
C27_Visible(gs) ==
    [g \in DOMAIN gs |->
        [isPrivate |-> gs[g].isPrivate,
         count |-> Cardinality({i \in 1..Len(gs[g].players) :
                                   ~gs[g].players[i].isDisconnected
                                   /\ ~gs[g].players[i].isDummy})]]

C27_ChangeIsListed ==
    [][C27_Visible(gameStates') # C27_Visible(gameStates)
       => \E i \in 1..Len(outbox') :
             /\ outbox'[i].msg.type = "GAMES_LIST"
             /\ outbox'[i].msg.games = C26_Listing(gameStates')
             /\ outbox'[i].to = {c \in Conns : ws'[c].readyState = "OPEN"}]_vars

(***************************************************************************)
(* C28.  A message other than UPDATE_STATE that names a session the store  *)
(* does not have is answered with an ERROR to its sender, and it creates   *)
(* no session and binds no connection.                                     *)
(***************************************************************************)
C28_Names(m) ==
    IF m.type = "FORCE_SYNC" THEN {m.gameState.gameId}
    ELSE IF m.type # "UPDATE_STATE" /\ "gameId" \in DOMAIN m THEN {m.gameId}
    ELSE {}

C28_UnknownSessionGetsError ==
    [][(handled'.kind = "message"
        /\ \E g \in C28_Names(handled'.data) : ~MapHas(gameStates, g))
       => /\ \E i \in 1..Len(outbox') :
                outbox'[i].msg.type = "ERROR" /\ outbox'[i].to = {handled'.conn}
          /\ DOMAIN gameStates' = DOMAIN gameStates
          /\ clientGameMap' = clientGameMap]_vars

(***************************************************************************)
(* C29.  A JOIN_GAME that finds no Disconnected slot and the session full  *)
(* binds the connection to the session and leaves it with no player id,    *)
(* whatever id it held before; when the connection closes next, no slot    *)
(* of any session is marked Disconnected.                                  *)
(***************************************************************************)
C29_IsObserverJoin(ev, gs) ==
    /\ ev.kind = "message"
    /\ "verdict" \in DOMAIN ev => ev.verdict = "dispatched"
    /\ ev.data.type = "JOIN_GAME"
    /\ MapHas(gs, ev.data.gameId)
    /\ LET players == gs[ev.data.gameId].players
       IN /\ DisconnectedPlayers(players) = {}
          /\ Cardinality(ActivePlayers(players)) + Cardinality(DummyPlayers(players))
                >= MAX_PLAYERS

C29_ObserverHoldsNoSlot ==
    [][/\ C29_IsObserverJoin(handled', gameStates)
          => /\ MapHas(clientGameMap', handled'.conn)
             /\ clientGameMap'[handled'.conn] = handled'.data.gameId
             /\ ws'[handled'.conn].playerId = NoPlayer
       /\ (/\ C29_IsObserverJoin(handled, gameStates)
           /\ handled'.kind = "close"
           /\ handled'.conn = handled.conn)
          => \A g \in DOMAIN gameStates :
                /\ MapHas(gameStates', g)
                /\ DisconnectedPlayers(gameStates'[g].players) = {}]_vars

(***************************************************************************)
(* C30.  Every slot of a session that is neither Disconnected nor          *)
(* Automated is held by exactly one connection: one that is bound to the   *)
(* session and has the slot's id as its player id.                         *)
(***************************************************************************)
C30_Holders(g, id) ==
    {c \in Conns : /\ MapHas(clientGameMap, c)
                   /\ clientGameMap[c] = g
                   /\ ws[c].gameId = g
                   /\ ws[c].playerId = id}

C30_ConnectedSlotHasOneHolder ==
    \A g \in DOMAIN gameStates :
       \A i \in ActivePlayers(gameStates[g].players) :
          Cardinality(C30_Holders(g, gameStates[g].players[i].id)) = 1

(***************************************************************************)
(* C31.  A LEAVE_GAME that marks a slot Disconnected while another human   *)
(* stays Connected leaves no Player-Reversion timer for the slot.  A slot  *)
(* that is Disconnected with no such timer pending stays so, with its      *)
(* credential, until a JOIN_GAME reconnects it or takes it over or the     *)
(* session is torn down; it does not become Automated.                     *)
(***************************************************************************)
C31_LeftByLeave(g, p) ==
    /\ handled'.kind = "message"
    /\ "verdict" \in DOMAIN handled' => handled'.verdict = "dispatched"
    /\ handled'.data.type = "LEAVE_GAME"
    /\ handled'.data.gameId = g
    /\ Number(handled'.data.playerId) = p.id
    /\ IsActive(p)
    /\ \E j \in ActivePlayers(gameStates[g].players) : gameStates[g].players[j].id # p.id

C31_Parked(g, p, timers) ==
    /\ p.isDisconnected
    /\ ~p.isDummy
    /\ ~MapHas(timers, TimerKey(g, p.id))

C31_ExplicitLeaveParksTheSlot ==
    [][\A g \in DOMAIN gameStates : \A i \in 1..Len(gameStates[g].players) :
          LET p == gameStates[g].players[i]
          IN /\ C31_LeftByLeave(g, p)
                => /\ MapHas(gameStates', g)
                   /\ Len(gameStates'[g].players) = Len(gameStates[g].players)
                   /\ C31_Parked(g, gameStates'[g].players[i], playerDisconnectTimers')
                   /\ gameStates'[g].players[i].playerToken = p.playerToken
             /\ (C31_Parked(g, p, playerDisconnectTimers) /\ MapHas(gameStates', g))
                => /\ Len(gameStates'[g].players) >= i
                   /\ gameStates'[g].players[i].id = p.id
                   /\ ~gameStates'[g].players[i].isDummy
                   /\ \/ /\ C31_Parked(g, gameStates'[g].players[i], playerDisconnectTimers')
                         /\ gameStates'[g].players[i].playerToken = p.playerToken
                      \/ /\ ~gameStates'[g].players[i].isDisconnected
                         /\ handled'.kind = "message"
                         /\ handled'.data.type = "JOIN_GAME"
                         /\ handled'.data.gameId = g]_vars

(***************************************************************************)
(* C32.  A message that is dispatched and names a session of the store,    *)
(* and does not end it, restarts the Session-Idle timer of that session:   *)
(* after the step the timer is pending with its full 20 minutes.           *)
(***************************************************************************)
C32_Session(m) ==
    IF m.type \in {"UPDATE_STATE", "FORCE_SYNC"} THEN {m.gameState.gameId}
    ELSE IF "gameId" \in DOMAIN m THEN {m.gameId}
    ELSE {}

C32_MessageRestartsIdleTimer ==
    [][(handled'.kind = "message"
        /\ ("verdict" \in DOMAIN handled' => handled'.verdict = "dispatched"))
       => \A g \in C32_Session(handled'.data) :
             (MapHas(gameStates, g) /\ MapHas(gameStates', g))
             => /\ MapHas(gameInactivityTimers', g)
                /\ gameInactivityTimers'[g] = [left |-> Ticks(INACTIVITY_TIMEOUT_MS),
                                               live |-> TRUE]]_vars

\* C33: once isGameStarted is true, SET_GAME_MODE, SET_GAME_PRIVACY,
\* ASSIGN_TEAMS, START_READY_CHECK, CANCEL_READY_CHECK and PLAYER_READY leave
\* the state of the session, its timers and its entry in the list as they
\* were and send nothing; CANCEL_READY_CHECK and PLAYER_READY do the same
\* while no ready check is active.
C33_Refused(m, gs) ==
    /\ m.type \in {"SET_GAME_MODE", "SET_GAME_PRIVACY", "ASSIGN_TEAMS",
                   "START_READY_CHECK", "CANCEL_READY_CHECK", "PLAYER_READY"}
    /\ MapHas(gs, m.gameId)
    /\ \/ gs[m.gameId].isGameStarted
       \/ m.type \in {"CANCEL_READY_CHECK", "PLAYER_READY"} /\ ~gs[m.gameId].isReadyCheckActive

C33_StartedSessionIgnoresLobbyFrames ==
    [][(handled'.kind = "message" /\ C33_Refused(handled'.data, gameStates))
       => /\ gameStates' = gameStates
          /\ gameInactivityTimers' = gameInactivityTimers
          /\ gameTerminationTimers' = gameTerminationTimers
          /\ playerDisconnectTimers' = playerDisconnectTimers
          /\ GamesList(gameStates') = GamesList(gameStates)
          /\ outbox' = <<>>]_vars

\* A frame that changes the mode arrived for a session whose game has
\* started, after a tick of the clock.
C33_ModeFrameAfterStart ==
    /\ handled.kind = "message"
    /\ handled.data.type = "SET_GAME_MODE"
    /\ MapHas(gameStates, handled.data.gameId)
    /\ gameStates[handled.data.gameId].isGameStarted
    /\ gameStates[handled.data.gameId].gameMode # handled.data.mode
    /\ gameInactivityTimers[handled.data.gameId].left < Ticks(INACTIVITY_TIMEOUT_MS)

\* C34: after the administrator's reset the session store is empty, no
\* connection is bound to a session, no timer of any kind is pending, and
\* every connection that was open has been closed; no timer set before the
\* reset runs or changes the state after it.
C34_ResetLeavesNothingBehind ==
    [][/\ handled'.kind = "clear"
          => /\ gameStates' = EmptyMap
             /\ clientGameMap' = EmptyMap
             /\ gameTerminationTimers' = EmptyMap
             /\ gameInactivityTimers' = EmptyMap
             /\ playerDisconnectTimers' = EmptyMap
             /\ \A c \in Conns : ws[c].readyState = "OPEN" => ws'[c].readyState # "OPEN"
       /\ handled.kind = "clear"
          => \* the step after the reset is not the callback of a timer, and
             \* the reset step has left no timer to run
             /\ handled'.kind \notin {"inactivity", "termination", "conversion"}
             /\ handled'.kind = "time"
                => /\ gameStates' = gameStates
                   /\ clientGameMap' = clientGameMap
                   /\ ws' = ws
                   /\ outbox' = <<>>]_vars

\* The reset came while a session with a bound, open connection had its idle
\* timer and the conversion timer of a lost player pending.
C34_ResetOfRunningSession ==
    /\ handled.kind = "clear"
    /\ \E n \in 1..Len(outbox) : outbox[n].msg.type = "ERROR" /\ outbox[n].to # {}
    /\ \E c \in Conns : ws[c].readyState = "CLOSING" /\ ws[c].closeCode = 1006
                        /\ ws[c].gameId # NoGameId
    /\ tokensIssued > 0

\* C35: a LEAVE_GAME changes only the slot held by the connection that sent
\* it: every other slot of the session named stays as it was, and the
\* session is torn down only if the sender holds a Connected slot of it.
C35_LeaveChangesOwnSlotOnly ==
    [][\A g \in DOMAIN gameStates :
         (Dispatched(handled') /\ handled'.data.type = "LEAVE_GAME" /\ handled'.data.gameId = g)
         => LET c == handled'.conn
                own == IF ws[c].gameId = g THEN ws[c].playerId ELSE NoPlayer
                players == gameStates[g].players
            IN IF MapHas(gameStates', g)
               THEN /\ Len(gameStates'[g].players) = Len(players)
                    /\ \A i \in 1..Len(players) :
                          players[i].id # own => gameStates'[g].players[i] = players[i]
               ELSE \E i \in ActivePlayers(players) : players[i].id = own]_vars

\* C36: the close of a connection changes at most the one slot the connection
\* was last acknowledged for, in the session where it was acknowledged: of
\* any other session, and of any other slot, it changes no slot and sets no
\* conversion timer, whatever the connection has bound itself to since.
C36_AcknowledgedFor(c, g, k) ==
    /\ MapHas(acknowledged, c)
    /\ acknowledged[c].gameId = g
    /\ acknowledged[c].playerId = k

C36_CloseChangesOwnSlotOnly ==
    [][handled'.kind = "close"
       => \A g \in DOMAIN gameStates \cap DOMAIN gameStates' :
            LET players == gameStates[g].players
                after == gameStates'[g].players
            IN /\ Len(after) = Len(players)
               /\ \A i \in 1..Len(players) :
                    \/ /\ after[i] = players[i]
                       /\ LET key == TimerKey(g, players[i].id)
                          IN IF MapHas(playerDisconnectTimers', key)
                             THEN /\ MapHas(playerDisconnectTimers, key)
                                  /\ playerDisconnectTimers'[key] = playerDisconnectTimers[key]
                             ELSE TRUE
                    \/ C36_AcknowledgedFor(handled'.conn, g, players[i].id)]_vars

\* C37: while a connection that was acknowledged with slot k of session S
\* stays open, sends no LEAVE_GAME and stays bound to S, slot k stays in S and
\* stays Connected through every step that is not a frame of that connection:
\* through the frames and the closes of other connections and the timers.
C37_Holds(c, g, k, sockets, gs) ==
    /\ sockets[c].readyState = "OPEN"
    /\ sockets[c].gameId = g
    /\ MapHas(gs, g)
    /\ \E i \in ActivePlayers(gs[g].players) : gs[g].players[i].id = k

C37_HeldSlotStaysConnected ==
    [][\A c \in DOMAIN acknowledged :
         LET g == acknowledged[c].gameId
             k == acknowledged[c].playerId
         IN (/\ C37_Holds(c, g, k, ws, gameStates)
             /\ ws'[c].readyState = "OPEN"
             /\ ws'[c].gameId = g
             /\ ~(handled'.kind \in {"message", "close", "connection"} /\ handled'.conn = c))
            => C37_Holds(c, g, k, ws', gameStates')]_vars

\* C38: a step that tears down session S leaves every other session as it
\* was: its state, its idle timer, its teardown timer and the conversion
\* timers of its players are unchanged, and the connections bound to other
\* sessions stay as they are.
C38_TimersOf(timers, g) == {key \in DOMAIN timers : timers[key].gameId = g}

C38_TeardownTouchesOneSession ==
    [][\A g \in DOMAIN gameStates \ DOMAIN gameStates' :
         /\ \A h \in DOMAIN gameStates \ {g} :
              /\ MapHas(gameStates', h) /\ gameStates'[h] = gameStates[h]
              /\ MapHas(gameInactivityTimers, h)
                 => /\ MapHas(gameInactivityTimers', h)
                    /\ gameInactivityTimers'[h] = gameInactivityTimers[h]
              /\ MapHas(gameTerminationTimers, h)
                 => /\ MapHas(gameTerminationTimers', h)
                    /\ gameTerminationTimers'[h] = gameTerminationTimers[h]
              /\ \A key \in C38_TimersOf(playerDisconnectTimers, h) :
                    /\ MapHas(playerDisconnectTimers', key)
                    /\ playerDisconnectTimers'[key] = playerDisconnectTimers[key]
         /\ \A c \in Conns :
              (ws[c].gameId \notin {g, NoGameId} /\ ~("conn" \in DOMAIN handled' /\ handled'.conn = c))
              => ws'[c] = ws[c]]_vars

\* C39: in every reachable state an idle timer is pending for a session id
\* exactly if that session is in the store, and no idle, teardown or
\* conversion timer is pending for an id that is not in the store.
C39_Pending(timers) == {key \in DOMAIN timers : timers[key].live}

C39_TimersOfStoredSessionsOnly ==
    /\ \A g \in DOMAIN gameStates : g \in C39_Pending(gameInactivityTimers)
    /\ \A g \in C39_Pending(gameInactivityTimers) : MapHas(gameStates, g)
    /\ \A g \in C39_Pending(gameTerminationTimers) : MapHas(gameStates, g)
    /\ \A key \in C39_Pending(playerDisconnectTimers) :
          MapHas(gameStates, playerDisconnectTimers[key].gameId)

\* A session in the store has its idle timer, its teardown timer and the
\* conversion timer of a player pending at once, the idle timer about to run.
C39_AllTimersPending ==
    \E g \in DOMAIN gameStates :
        /\ g \in C39_Pending(gameInactivityTimers)
        /\ gameInactivityTimers[g].left = 0
        /\ g \in C39_Pending(gameTerminationTimers)
        /\ \E key \in C39_Pending(playerDisconnectTimers) :
              playerDisconnectTimers[key].gameId = g

\* C40: the close event of a connection that the teardown of its session
\* terminated changes no session and no timer: a session created under the
\* same id in the meantime keeps its slots, and no timer is set for it.
C40_LateCloseChangesNothing ==
    [][(/\ handled'.kind = "close"
        /\ ws[handled'.conn].readyState = "CLOSING"
        /\ ws[handled'.conn].closeCode = 1006)
       => /\ gameStates' = gameStates
          /\ playerDisconnectTimers' = playerDisconnectTimers
          /\ gameTerminationTimers' = gameTerminationTimers
          /\ gameInactivityTimers' = gameInactivityTimers]_vars

=============================================================================
